---- MODULE Spec2Model ----
(***************************************************************************)
(* Model of the request-to-change pipeline of the Crossplane agentic       *)
(* automation: the Publisher (github_integration.py), the Orchestrator     *)
(* (agentic_workflow.py), the Resolver (llm_agent.py) and the Validator    *)
(* and Synthesizer (enhanced_resource_generator.py).                       *)
(*                                                                         *)
(* The hosting service and the language model are collaborators: every     *)
(* call to them answers with a status code (0 stands for a transport       *)
(* failure, requests.RequestException) or with a content, chosen           *)
(* nondeterministically among the answers the service can give in the      *)
(* current state of the remote repository.                                 *)
(***************************************************************************)
EXTENDS Integers, Sequences, FiniteSets, TLC

\* ------------------------------------------------------------------ bounds

\* Largest number of files handed to one publish run.
MaxFiles == 3

\* The publish runs (callers of create_automated_pr) that share the remote.
Runs == {"r1", "r2"}

\* The run of the single-caller specifications.
Solo == {"r1"}

\* The branch names "{prefix}-{timestamp}" a run can derive: two runs that
\* start within the same second with the same prefix derive the same name.
BranchNames == {"b1", "b2"}

\* ---------------------------------------------------------------- variables

VARIABLES
    branches,      \* remote: the set of branch refs that exist
    branch_files,  \* remote: branch -> set of <<run, file>> committed on it
    pulls,         \* remote: open pull requests, [head, run]
    pc,            \* run -> position in create_automated_pr
    branch_name,   \* run -> the branch name the run derived
    files,         \* run -> number of input files (files are 1..files[r])
    idx,           \* run -> commit_files loop position
    commits,       \* run -> commit records so far (file ids, in order)
    ops,           \* run -> log of the hosting operations the run invoked,
                   \*        each with the status of its last HTTP call
    exc,           \* run -> the exception caught at line 282
    outcome,       \* run -> what create_automated_pr gave its caller
    llm_model,     \* the model the LLMAgent was constructed for
    user_input,    \* the text handed to parse_request
    asked,         \* the answers of the collaborator to the calls of the
                   \* parse_request under observation, in order
    parsed,        \* what parse_request gave its caller
    enum_shared,   \* whether the generator's ResourceType is the workflow's
    ppc,           \* position in process_request
    auto_create_pr,\* the argument of process_request
    issues,        \* what validate_request returned
    invoked,       \* the components process_request has called, in order
    result,        \* what process_request returned
    resource_request, \* the ResourceRequest handed to the generator
    validated,     \* what validate_request gave its caller
    generated,     \* what generate_from_request gave its caller
    regenerated,   \* what a second call with the same request gave
    clock,         \* the instant datetime.now() returns
    called_at,     \* the instants of the calls of generate_from_request
    workflow_status, \* web_app.workflow_status: workflow id -> its entry
    wpc,           \* workflow id -> position of its run_workflow_async
    wresult,       \* workflow id -> the result its run_workflow returned
    stage_log,     \* workflow id -> the stages written to its entry
    polled         \* what the last get_workflow_status copied

pubvars == <<branches, branch_files, pulls, pc, branch_name, files, idx,
             commits, ops, exc, outcome>>

resvars == <<llm_model, user_input, asked, parsed>>

procvars == <<enum_shared, ppc, auto_create_pr, issues, invoked, result>>

genvars == <<resource_request, validated, generated, regenerated, clock,
             called_at>>

webvars == <<workflow_status, wpc, wresult, stage_log, polled>>

vars == <<pubvars, resvars, procvars, genvars, webvars>>

\* ------------------------------------------------------------ hosting oracle

\* requests raises RequestException: there is no status code.
Transport == 0

GetStatuses == {200, 404, Transport}
CreateRefStatuses == {201, 422, 409, 500, Transport}
PutStatuses == {200, 201, 409, Transport}
PullStatuses == {201, 422, Transport}
DeleteStatuses == {204, 404, 403, Transport}

NoExc == [type |-> "none", at |-> "none"]
GitHubAPIError(where) == [type |-> "GitHubAPIError", at |-> where]
RequestException(where) == [type |-> "RequestException", at |-> where]

NoOutcome == [kind |-> "none", branch |-> "none", commits |-> <<>>,
              pull_request |-> "none", error |-> NoExc]

Op(name, arg, status) == [op |-> name, arg |-> arg, status |-> status]

\* ------------------------------------------------------- reading the log

\* The operations named `name` in run r's log, in order.
OpsOf(r, name) == SelectSeq(ops[r], LAMBDA o : o.op = name)

Count(r, name) == Len(OpsOf(r, name))

\* The status the POST /git/refs call of run r got (-1: the call was not made).
RefStatus(r) ==
    IF OpsOf(r, "create_branch") = <<>> THEN -1
    ELSE OpsOf(r, "create_branch")[1].status

\* The status the cleanup's DELETE call of run r got (-1: no call).
DelStatus(r) ==
    IF OpsOf(r, "delete_branch") = <<>> THEN -1
    ELSE OpsOf(r, "delete_branch")[1].status

Terminal(r) == pc[r] \in {"returned", "raised"}

\* ------------------------------------------------------------- create_branch

\* get_default_branch: the exception it raises for status s, or NoExc.
get_default_branch(s, where) ==
    IF s = Transport THEN RequestException(where)
    ELSE IF s # 200 THEN GitHubAPIError(where)
    ELSE NoExc

\* Mutant: the 422 answer is not told apart from the other failures.
create_ref_result_strict(s) ==
    IF s = Transport THEN RequestException("create_branch")
    ELSE IF s # 201 THEN GitHubAPIError("create_branch")
    ELSE NoExc

\* create_branch's handling of the POST /git/refs status: 422 is taken as
\* "branch might already exist, continuing"; any other status but 201 raises.
create_ref_result(s) ==
    IF s = Transport THEN RequestException("create_branch")
    ELSE IF s = 422 THEN NoExc
    ELSE IF s # 201 THEN GitHubAPIError("create_branch")
    ELSE NoExc

\* The exception create_branch raises, or NoExc, for the statuses of its three
\* calls: GET repo (s1), GET base ref (s2), POST refs (s3).
create_branch_result(s1, s2, s3) ==
    IF get_default_branch(s1, "create_branch") # NoExc
    THEN get_default_branch(s1, "create_branch")
    ELSE IF s2 = Transport THEN RequestException("create_branch")
    ELSE IF s2 # 200 THEN GitHubAPIError("create_branch")
    ELSE create_ref_result(s3)

\* Whether the POST /git/refs call is made at all.
RefPosted(s1, s2) == s1 = 200 /\ s2 = 200

\* --------------------------------------------------------------- the actions

\* create_automated_pr, lines 253-255: derive the branch name; the caller
\* hands in n files.
StartPublish(r) ==
    /\ pc[r] = "idle"
    /\ \E b \in BranchNames, n \in 0..MaxFiles :
         /\ branch_name' = [branch_name EXCEPT ![r] = b]
         /\ files' = [files EXCEPT ![r] = n]
    /\ pc' = [pc EXCEPT ![r] = "create_branch"]
    /\ UNCHANGED <<branches, branch_files, pulls, idx, commits, ops, exc,
                   outcome>>

\* Step 1 (line 260): create_branch(branch_name).
create_branch(r) ==
    /\ pc[r] = "create_branch"
    /\ \E s1 \in GetStatuses, s2 \in GetStatuses, s3 \in CreateRefStatuses :
         LET b == branch_name[r]
             posted == RefPosted(s1, s2)
             e == create_branch_result(s1, s2, s3)
         IN  \* the remote answers 201 only when it creates the ref
             /\ (posted /\ s3 = 201) => b \notin branches
             /\ branches' = IF posted /\ s3 = 201 THEN branches \cup {b}
                            ELSE branches
             /\ ops' = [ops EXCEPT ![r] =
                   Append(@, Op("create_branch", 0, IF posted THEN s3 ELSE -1))]
             /\ exc' = [exc EXCEPT ![r] = e]
             /\ pc' = [pc EXCEPT ![r] = IF e = NoExc THEN "commit_files"
                                        ELSE "except"]
    /\ idx' = [idx EXCEPT ![r] = 1]
    /\ UNCHANGED <<branch_files, pulls, branch_name, files, commits, outcome>>

\* create_or_update_file: TRUE when it returns the commit information, FALSE
\* when it raises; s1 is the status of GET contents, s2 of the PUT.
create_or_update_file(s1, s2) == s1 # Transport /\ s2 \in {200, 201}

\* Mutant: the record is appended outside the try block, failed or not.
commit_files_step_always(cs, i, ok) == Append(cs, i)

\* The commit records after one pass of the loop of commit_files (lines
\* 184-198) over file i: a file whose commit raises is skipped.
commit_files_step(cs, i, ok) == IF ok THEN Append(cs, i) ELSE cs

\* Step 2 (line 265), one pass of the loop of commit_files (lines 177-198).
commit_file(r) ==
    /\ pc[r] = "commit_files"
    /\ idx[r] <= files[r]
    /\ \E s1 \in GetStatuses, s2 \in PutStatuses :
         LET b == branch_name[r]
             ok == create_or_update_file(s1, s2)
         IN  \* the remote writes only to a branch that exists
             /\ (s1 # Transport /\ s2 \in {200, 201}) => b \in branches
             /\ commits' = [commits EXCEPT ![r] =
                              commit_files_step(@, idx[r], ok)]
             /\ branch_files' =
                   IF s1 # Transport /\ s2 \in {200, 201}
                   THEN [branch_files EXCEPT ![b] = @ \cup {<<r, idx[r]>>}]
                   ELSE branch_files
             /\ ops' = [ops EXCEPT ![r] =
                   Append(@, Op("commit", idx[r],
                                IF s1 = Transport THEN Transport ELSE s2))]
    /\ idx' = [idx EXCEPT ![r] = @ + 1]
    /\ UNCHANGED <<branches, pulls, pc, branch_name, files, exc, outcome>>

\* Mutant: the empty list of commits is not checked.
no_commits_check_missing(cs) == NoExc

\* What lines 267-268 raise for the list commit_files returned.
no_commits_check(cs) ==
    IF cs = <<>> THEN GitHubAPIError("commit_files") ELSE NoExc

\* commit_files returns (line 200); lines 267-270 check its result.
commit_files_return(r) ==
    /\ pc[r] = "commit_files"
    /\ idx[r] > files[r]
    /\ LET e == no_commits_check(commits[r])
       IN /\ exc' = [exc EXCEPT ![r] = e]
          /\ pc' = [pc EXCEPT ![r] = IF e = NoExc THEN "create_pull_request"
                                     ELSE "except"]
    /\ UNCHANGED <<branches, branch_files, pulls, branch_name, files, idx,
                   commits, ops, outcome>>

\* Mutant: the status of POST pulls is not checked.
create_pull_request_result_unchecked(s1, s2) ==
    IF get_default_branch(s1, "create_pull_request") # NoExc
    THEN get_default_branch(s1, "create_pull_request")
    ELSE IF s2 = Transport THEN RequestException("create_pull_request")
    ELSE NoExc

\* The exception create_pull_request raises, or NoExc: GET repo (s1), then
\* POST pulls (s2).
create_pull_request_result(s1, s2) ==
    IF get_default_branch(s1, "create_pull_request") # NoExc
    THEN get_default_branch(s1, "create_pull_request")
    ELSE IF s2 = Transport THEN RequestException("create_pull_request")
    ELSE IF s2 # 201 THEN GitHubAPIError("create_pull_request")
    ELSE NoExc

\* Step 3 (lines 274-280): create the pull request and return the result.
create_pull_request(r) ==
    /\ pc[r] = "create_pull_request"
    /\ \E s1 \in GetStatuses, s2 \in PullStatuses :
         LET b == branch_name[r]
             e == create_pull_request_result(s1, s2)
             opened == s1 = 200 /\ s2 = 201
         IN  \* the remote opens a pull request only from an existing head
             /\ opened => b \in branches
             /\ pulls' = IF opened THEN pulls \cup {[head |-> b, run |-> r]}
                         ELSE pulls
             /\ ops' = [ops EXCEPT ![r] =
                   Append(@, Op("create_pull_request", 0,
                                IF s1 = 200 THEN s2 ELSE s1))]
             /\ exc' = [exc EXCEPT ![r] = e]
             /\ pc' = [pc EXCEPT ![r] = IF e = NoExc THEN "returned"
                                        ELSE "except"]
             /\ outcome' = [outcome EXCEPT ![r] =
                   IF e = NoExc
                   THEN [kind |-> "returned", branch |-> b,
                         commits |-> commits[r], pull_request |-> b,
                         error |-> NoExc]
                   ELSE @]
    /\ UNCHANGED <<branches, branch_files, branch_name, files, idx, commits>>

\* Mutant: an exception raised by the cleanup replaces the caught one.
reraise_cleanup_error(e, d) ==
    IF d = Transport THEN RequestException("delete_branch") ELSE e

\* The exception that leaves the handler of lines 282-289 when e was caught
\* and the cleanup's DELETE answered d: whatever delete_branch does or
\* raises is ignored ("except: pass") and the bare raise re-raises e.
reraise(e, d) == e

\* Mutant: the handler raises again without the cleanup.
raise_without_cleanup(r) ==
    /\ pc[r] = "except"
    /\ outcome' = [outcome EXCEPT ![r] =
          [kind |-> "raised", branch |-> "none", commits |-> <<>>,
           pull_request |-> "none", error |-> exc[r]]]
    /\ pc' = [pc EXCEPT ![r] = "raised"]
    /\ UNCHANGED <<branches, branch_files, pulls, branch_name, files, idx,
                   commits, ops, exc>>

\* The handler of lines 282-289: delete_branch(branch_name) (lines 291-304),
\* its failure swallowed, then the caught exception is raised again.
delete_branch(r) ==
    /\ pc[r] = "except"
    /\ \E d \in DeleteStatuses :
         LET b == branch_name[r]
         IN  \* the remote answers 204 when it deleted the ref, 404 when there
             \* was none
             /\ d = 204 => b \in branches
             /\ d = 404 => b \notin branches
             /\ branches' = IF d = 204 THEN branches \ {b} ELSE branches
             /\ branch_files' = IF d = 204
                   THEN [branch_files EXCEPT ![b] = {}] ELSE branch_files
             /\ ops' = [ops EXCEPT ![r] = Append(@, Op("delete_branch", 0, d))]
             /\ outcome' = [outcome EXCEPT ![r] =
                   [kind |-> "raised", branch |-> "none", commits |-> <<>>,
                    pull_request |-> "none", error |-> reraise(exc[r], d)]]
    /\ pc' = [pc EXCEPT ![r] = "raised"]
    /\ UNCHANGED <<pulls, branch_name, files, idx, commits, exc>>


\* =============================================================== Resolver
\* ------------------------------------------------------------------ strings

\* A Python string is the sequence of its characters.
LowerLetters == <<"a", "b", "c", "d", "e", "f", "g", "h", "i", "j", "k", "l", "m", "n", "o", "p", "q", "r", "s", "t", "u", "v", "w", "x", "y", "z">>
UpperLetters == <<"A", "B", "C", "D", "E", "F", "G", "H", "I", "J", "K", "L", "M", "N", "O", "P", "Q", "R", "S", "T", "U", "V", "W", "X", "Y", "Z">>
Digits == <<"0", "1", "2", "3", "4", "5", "6", "7", "8", "9">>

Range(s) == {s[i] : i \in 1..Len(s)}

LowerSet == Range(LowerLetters)
UpperSet == Range(UpperLetters)
DigitSet == Range(Digits)
\* \s of the regular expressions, and what str.strip() removes.
SpaceSet == {" ", "\n", "\t"}
\* [a-zA-Z0-9-]
NameCharSet == LowerSet \cup UpperSet \cup DigitSet \cup {"-"}

IsUpper(c) == c \in UpperSet

IndexIn(s, c) == CHOOSE i \in 1..Len(s) : s[i] = c

\* str.lower()
LowerChar(c) == IF IsUpper(c) THEN LowerLetters[IndexIn(UpperLetters, c)] ELSE c
Lower(s) == [i \in 1..Len(s) |-> LowerChar(s[i])]

\* int() of a digit
DigitVal(c) == IndexIn(Digits, c) - 1

\* int() of a string of digits
RECURSIVE IntOf(_)
IntOf(s) ==
    IF s = <<>> THEN 0
    ELSE 10 * IntOf(SubSeq(s, 1, Len(s) - 1)) + DigitVal(s[Len(s)])

\* s[i:].startswith(w), with i counted from 1
StartsAt(s, i, w) ==
    /\ i >= 1
    /\ i + Len(w) - 1 <= Len(s)
    /\ SubSeq(s, i, i + Len(w) - 1) = w

\* w in s
Contains(s, w) == \E i \in 1..Len(s) : StartsAt(s, i, w)

\* any(word in s for word in ws)
ContainsAny(s, ws) == \E w \in ws : Contains(s, w)

\* The length of the longest run of characters of the class C that starts at
\* i: what a greedy [C]* consumes there.
RECURSIVE RunLen(_, _, _)
RunLen(s, i, C) ==
    IF i > Len(s) THEN 0
    ELSE IF s[i] \notin C THEN 0
    ELSE 1 + RunLen(s, i + 1, C)

\* s[:n]
Prefix(s, n) == SubSeq(s, 1, IF Len(s) < n THEN Len(s) ELSE n)

Min(S) == CHOOSE x \in S : \A y \in S : x <= y

\* ------------------------------------------------------------ Python values

\* A value of a request field: None, a string, an integer, a boolean or a
\* dict.
None == [t |-> "none", v |-> <<>>, n |-> 0]
PyStr(cs) == [t |-> "str", v |-> cs, n |-> 0]
PyInt(k) == [t |-> "int", v |-> <<>>, n |-> k]
PyBool(b) == [t |-> "bool", v |-> <<>>, n |-> IF b THEN 1 ELSE 0]

\* Python's truth value: None, "", 0 and False are false.
Truthy(x) ==
    CASE x.t = "none" -> FALSE
      [] x.t \in {"str", "dict"} -> x.v # <<>>
      [] OTHER -> x.n # 0

\* A dict, as the sequence of its items.
PyDict(items) == [t |-> "dict", v |-> items, n |-> 0]

\* An Optional field that holds a list or a dict: <<>> is None.
OptTruthy(o) == o # <<>> /\ Truthy(o[1])

\* ResourceType (lines 19-23): the members and their values.
ResourceTypes == {"EKS_CLUSTER", "S3_BUCKET", "RDS_DATABASE", "VPC"}

ResourceTypeValue(m) ==
    CASE m = "EKS_CLUSTER" -> <<"e", "k", "s", "_", "c", "l", "u", "s", "t", "e", "r">>
      [] m = "S3_BUCKET" -> <<"s", "3", "_", "b", "u", "c", "k", "e", "t">>
      [] m = "RDS_DATABASE" -> <<"r", "d", "s", "_", "d", "a", "t", "a", "b", "a", "s", "e">>
      [] m = "VPC" -> <<"v", "p", "c">>

s_us_east_1 == <<"u", "s", "-", "e", "a", "s", "t", "-", "1">>
s_development == <<"d", "e", "v", "e", "l", "o", "p", "m", "e", "n", "t">>
s_staging == <<"s", "t", "a", "g", "i", "n", "g">>
s_production == <<"p", "r", "o", "d", "u", "c", "t", "i", "o", "n">>

\* ResourceRequest (lines 25-49) with the dataclass defaults. tags and
\* instance_types are <<>> for None and <<x>> for the value x.
ResourceRequest(ty, name) ==
    [resource_type |-> ty, name |-> name,
     region |-> PyStr(s_us_east_1), environment |-> PyStr(s_development),
     node_count |-> None, kubernetes_version |-> None,
     instance_types |-> <<>>,
     versioning |-> None, encryption |-> None,
     engine |-> None, instance_class |-> None, allocated_storage |-> None,
     tags |-> <<>>, description |-> None]


\* ---------------------------------------------------------- _fallback_parse

fallback_resource_type_database_first(text) ==
    LET lo == Lower(text)
    IN  IF ContainsAny(lo, {<<"d", "a", "t", "a", "b", "a", "s", "e">>, <<"d", "b">>, <<"r", "d", "s">>, <<"m", "y", "s", "q", "l">>, <<"p", "o", "s", "t", "g", "r", "e", "s">>})
        THEN "RDS_DATABASE"
        ELSE IF ContainsAny(lo, {<<"b", "u", "c", "k", "e", "t">>, <<"s", "3">>, <<"s", "t", "o", "r", "a", "g", "e">>})
        THEN "S3_BUCKET"
        ELSE IF ContainsAny(lo, {<<"v", "p", "c">>, <<"n", "e", "t", "w", "o", "r", "k">>, <<"s", "u", "b", "n", "e", "t">>})
        THEN "VPC"
        ELSE "EKS_CLUSTER"

\* Lines 311-317: the resource type by keyword groups, in this order.
fallback_resource_type(text) ==
    LET lo == Lower(text)
    IN  IF ContainsAny(lo, {<<"b", "u", "c", "k", "e", "t">>, <<"s", "3">>, <<"s", "t", "o", "r", "a", "g", "e">>})
        THEN "S3_BUCKET"
        ELSE IF ContainsAny(lo, {<<"d", "a", "t", "a", "b", "a", "s", "e">>, <<"d", "b">>, <<"r", "d", "s">>, <<"m", "y", "s", "q", "l">>,
                                 <<"p", "o", "s", "t", "g", "r", "e", "s">>})
        THEN "RDS_DATABASE"
        ELSE IF ContainsAny(lo, {<<"v", "p", "c">>, <<"n", "e", "t", "w", "o", "r", "k">>, <<"s", "u", "b", "n", "e", "t">>})
        THEN "VPC"
        ELSE "EKS_CLUSTER"

\* re.search(r'(?:called|named)\s+([a-zA-Z0-9-]+)', text): the places where
\* the pattern matches, and the group of the match that starts at i.
CalledLen(text, i) ==
    IF StartsAt(text, i, <<"c", "a", "l", "l", "e", "d">>) THEN 6
    ELSE IF StartsAt(text, i, <<"n", "a", "m", "e", "d">>) THEN 5
    ELSE 0

CalledMatches(text) ==
    {i \in 1..Len(text) :
        LET k == CalledLen(text, i)
            w == RunLen(text, i + k, SpaceSet)
        IN  k > 0 /\ w > 0 /\ RunLen(text, i + k + w, NameCharSet) > 0}

CalledGroup(text, i) ==
    LET k == CalledLen(text, i)
        w == RunLen(text, i + k, SpaceSet)
        n == RunLen(text, i + k + w, NameCharSet)
    IN  SubSeq(text, i + k + w, i + k + w + n - 1)

\* re.search(r'([a-zA-Z0-9-]+)(?:\s+cluster|\s+bucket|\s+database)', text)
KindMatches(text) ==
    {i \in 1..Len(text) :
        LET n == RunLen(text, i, NameCharSet)
            w == RunLen(text, i + n, SpaceSet)
        IN  /\ n > 0
            /\ w > 0
            /\ \E kw \in {<<"c", "l", "u", "s", "t", "e", "r">>, <<"b", "u", "c", "k", "e", "t">>, <<"d", "a", "t", "a", "b", "a", "s", "e">>} :
                  StartsAt(text, i + n + w, kw)}

KindGroup(text, i) == SubSeq(text, i, i + RunLen(text, i, NameCharSet) - 1)

\* re.sub(r'[^a-zA-Z0-9-]', '-', name)
Sanitize(name) ==
    [i \in 1..Len(name) |-> IF name[i] \in NameCharSet THEN name[i] ELSE "-"]

\* Lines 319-325: the name.
fallback_name(text) ==
    LET group ==
          IF CalledMatches(text) # {}
          THEN CalledGroup(text, Min(CalledMatches(text)))
          ELSE IF KindMatches(text) # {}
          THEN KindGroup(text, Min(KindMatches(text)))
          ELSE <<"d", "e", "f", "a", "u", "l", "t", "-", "r", "e", "s", "o", "u", "r", "c", "e">>
    IN  Lower(Sanitize(group))

\* re.search(r'(us-[a-z]+-\d+|eu-[a-z]+-\d+|ap-[a-z]+-\d+)', text)
RegionLen(text, i) ==
    LET l == RunLen(text, i + 3, LowerSet)
        d == RunLen(text, i + 3 + l + 1, DigitSet)
    IN  IF /\ \E p \in {<<"u", "s", "-">>, <<"e", "u", "-">>, <<"a", "p", "-">>} : StartsAt(text, i, p)
           /\ l > 0
           /\ StartsAt(text, i + 3 + l, <<"-">>)
           /\ d > 0
        THEN 3 + l + 1 + d
        ELSE 0

RegionMatches(text) == {i \in 1..Len(text) : RegionLen(text, i) > 0}

\* Lines 327-329: the region.
fallback_region(text) ==
    IF RegionMatches(text) # {}
    THEN LET i == Min(RegionMatches(text))
         IN  SubSeq(text, i, i + RegionLen(text, i) - 1)
    ELSE s_us_east_1

\* Lines 331-336: the environment.
fallback_environment(text) ==
    LET lo == Lower(text)
    IN  IF ContainsAny(lo, {<<"p", "r", "o", "d">>, s_production}) THEN s_production
        ELSE IF ContainsAny(lo, {s_staging, <<"s", "t", "a", "g", "e">>}) THEN s_staging
        ELSE s_development

\* re.search(r'(\d+)\s+nodes?', text)
NodeMatches(text) ==
    {i \in 1..Len(text) :
        LET d == RunLen(text, i, DigitSet)
            w == RunLen(text, i + d, SpaceSet)
        IN  d > 0 /\ w > 0 /\ StartsAt(text, i + d + w, <<"n", "o", "d", "e">>)}

\* Lines 338-342: the node count of a cluster.
fallback_node_count(text, ty) ==
    IF ty # "EKS_CLUSTER" THEN None
    ELSE IF NodeMatches(text) # {}
    THEN LET i == Min(NodeMatches(text))
         IN  PyInt(IntOf(SubSeq(text, i, i + RunLen(text, i, DigitSet) - 1)))
    ELSE PyInt(3)

\* _fallback_parse (lines 307-352).
fallback_parse(text) ==
    LET ty == fallback_resource_type(text)
    IN  [ResourceRequest(ty, PyStr(fallback_name(text))) EXCEPT
            !.region = PyStr(fallback_region(text)),
            !.environment = PyStr(fallback_environment(text)),
            !.node_count = fallback_node_count(text, ty),
            !.kubernetes_version =
                IF ty = "EKS_CLUSTER" THEN PyStr(<<"1", ".", "2", "8">>) ELSE None,
            !.description =
                PyStr(<<"P", "a", "r", "s", "e", "d", " ", "f", "r", "o", "m", ":", " ">> \o Prefix(text, 100) \o <<".", ".", ".">>)]

\* The requests typed at the prompt.
text_bucket == <<"I", " ", "n", "e", "e", "d", " ", "a", " ", "s", "e", "c", "u", "r", "e", " ", "S", "3", " ", "b", "u", "c", "k", "e", "t", " ", "f", "o", "r", " ", "s", "t", "o", "r", "i", "n", "g", " ", "c", "u", "s", "t", "o", "m", "e", "r", " ", "d", "a", "t", "a">>
text_cluster == <<"C", "r", "e", "a", "t", "e", " ", "a", "n", " ", "E", "K", "S", " ", "c", "l", "u", "s", "t", "e", "r", " ", "c", "a", "l", "l", "e", "d", " ", "a", "n", "a", "l", "y", "t", "i", "c", "s", "-", "c", "l", "u", "s", "t", "e", "r", " ", "f", "o", "r", " ", "p", "r", "o", "d", "u", "c", "t", "i", "o", "n", " ", "i", "n", " ", "u", "s", "-", "w", "e", "s", "t", "-", "2", " ", "w", "i", "t", "h", " ", "5", " ", "n", "o", "d", "e", "s">>
text_mysql == <<"S", "e", "t", " ", "u", "p", " ", "a", " ", "M", "y", "S", "Q", "L", " ", "d", "a", "t", "a", "b", "a", "s", "e", " ", "f", "o", "r", " ", "o", "u", "r", " ", "a", "p", "p", "l", "i", "c", "a", "t", "i", "o", "n">>
text_network == <<"a", " ", "n", "e", "t", "w", "o", "r", "k", " ", "n", "a", "m", "e", "d", " ", "c", "o", "r", "e", "_", "n", "e", "t", " ", "i", "n", " ", "e", "u", "-", "c", "e", "n", "t", "r", "a", "l", "-", "1">>
text_storage == <<"c", "r", "e", "a", "t", "e", " ", "s", "t", "o", "r", "a", "g", "e">>
text_staging == <<"s", "t", "a", "g", "i", "n", "g", " ", "c", "l", "u", "s", "t", "e", "r", " ", "w", "i", "t", "h", " ", "2", "5", " ", "n", "o", "d", "e", "s">>

UserInputs == {text_bucket, text_cluster, text_mysql, text_network,
               text_storage, text_staging}

\* Texts with keywords of more than one group.
text_backup == <<"d", "a", "t", "a", "b", "a", "s", "e", " ", "b", "a", "c", "k", "u", "p", "s", " ", "i", "n", " ", "a", " ", "b", "u", "c", "k", "e", "t", " ", "o", "n", " ", "t", "h", "e", " ", "n", "e", "t", "w", "o", "r", "k">>
text_db_subnet == <<"a", " ", "d", "b", " ", "i", "n", " ", "t", "h", "e", " ", "p", "r", "i", "v", "a", "t", "e", " ", "s", "u", "b", "n", "e", "t">>

ResolverInputs == UserInputs \cup {text_backup, text_db_subnet}


\* ------------------------------------------------------ the model's answers

\* The content of an answer is a sequence of tokens: punctuation, strings,
\* numbers, literals, bare words, white space and code fences (```).
Tok(t) == [t |-> t, v |-> <<>>, n |-> 0]
JStr(cs) == [t |-> "str", v |-> cs, n |-> 0]
JNum(k) == [t |-> "num", v |-> <<>>, n |-> k]
Word(cs) == [t |-> "word", v |-> cs, n |-> 0]
\* An object inside the object, by its items.
JObj(items) == [t |-> "obj", v |-> items, n |-> 0]

WhiteTokens == {"ws", "nl"}
ScalarTokens == {"str", "num", "true", "false", "null"}
ValueTokens == ScalarTokens \cup {"obj"}

\* str.strip() (lines 227 and 260)
RECURSIVE Strip(_)
Strip(c) ==
    IF c = <<>> THEN c
    ELSE IF c[1].t \in WhiteTokens THEN Strip(Tail(c))
    ELSE IF c[Len(c)].t \in WhiteTokens THEN Strip(SubSeq(c, 1, Len(c) - 1))
    ELSE c

\* re.search(r'```json\n(.*?)\n```', content, re.DOTALL): the places where
\* the opening "```json\n" can start, and where a closing "\n```" can
\* start after the opening at i.
JsonFenceOpens(c) ==
    {i \in 1..Len(c) :
        /\ i + 2 <= Len(c)
        /\ c[i].t = "fence"
        /\ c[i + 1] = Word(<<"j", "s", "o", "n">>)
        /\ c[i + 2].t = "nl"}

JsonFenceCloses(c, i) ==
    {j \in i + 3..Len(c) :
        /\ j + 1 <= Len(c)
        /\ c[j].t = "nl"
        /\ c[j + 1].t = "fence"}

\* The leftmost match, the group as short as it can be.
JsonFenceMatches(c) ==
    LET starts == {i \in JsonFenceOpens(c) : JsonFenceCloses(c, i) # {}}
    IN  IF starts = {} THEN {}
        ELSE {<<Min(starts), Min(JsonFenceCloses(c, Min(starts)))>>}

\* Lines 262-267: the JSON text out of a markdown wrapping.
Unwrap(c) ==
    LET ms == JsonFenceMatches(c)
    IN  IF ms # {}
        THEN LET m == CHOOSE x \in ms : TRUE
             IN  SubSeq(c, m[1] + 3, m[2] - 1)
        ELSE IF c # <<>> /\ c[1].t = "fence" /\ c[Len(c)].t = "fence"
        THEN Strip(SubSeq(c, 2, Len(c) - 1))
        ELSE c

\* json.loads, for scalars, the empty list and objects of scalars: ok says
\* whether the text is valid JSON, dict whether the value is an object, obj
\* is the object (a later duplicate of a key wins).
NotJson == [ok |-> FALSE, dict |-> FALSE, obj |-> <<>>]
JsonOther == [ok |-> TRUE, dict |-> FALSE, obj |-> <<>>]
JsonObject(o) == [ok |-> TRUE, dict |-> TRUE, obj |-> o]

Put(o, k, x) == [y \in DOMAIN o \cup {k} |-> IF y = k THEN x ELSE o[y]]

RECURSIVE ParseMembers(_, _, _)
ParseMembers(ts, i, acc) ==
    IF i + 3 > Len(ts) THEN NotJson
    ELSE IF ~(ts[i].t = "str" /\ ts[i + 1].t = ":"
              /\ ts[i + 2].t \in ValueTokens) THEN NotJson
    ELSE LET o == Put(acc, ts[i].v, ts[i + 2])
         IN  IF ts[i + 3].t = "}"
             THEN IF i + 3 = Len(ts) THEN JsonObject(o) ELSE NotJson
             ELSE IF ts[i + 3].t = "," THEN ParseMembers(ts, i + 4, o)
             ELSE NotJson

json_loads(c) ==
    LET ts == SelectSeq(c, LAMBDA x : x.t \notin WhiteTokens)
    IN  IF ts = <<>> THEN NotJson
        ELSE IF Len(ts) = 1
        THEN IF ts[1].t \in ScalarTokens THEN JsonOther ELSE NotJson
        ELSE IF Len(ts) = 2 /\ ts[1].t = "[" /\ ts[2].t = "]" THEN JsonOther
        ELSE IF ts[1].t # "{" THEN NotJson
        ELSE IF Len(ts) = 2
        THEN IF ts[2].t = "}" THEN JsonObject(<<>>) ELSE NotJson
        ELSE ParseMembers(ts, 2, <<>>)

\* The Python value of a JSON scalar.
FromJson(x) ==
    CASE x.t = "str" -> PyStr(x.v)
      [] x.t = "num" -> PyInt(x.n)
      [] x.t = "true" -> PyBool(TRUE)
      [] x.t = "false" -> PyBool(FALSE)
      [] x.t = "obj" -> PyDict(x.v)
      [] OTHER -> None

\* dict.get(key, default)
Get(o, k, default) == IF k \in DOMAIN o THEN FromJson(o[k]) ELSE default

\* ResourceType(value): the member with that value, "" for ValueError.
ResourceTypeOf(x) ==
    IF x.t = "str" /\ \E m \in ResourceTypes : ResourceTypeValue(m) = x.v
    THEN CHOOSE m \in ResourceTypes : ResourceTypeValue(m) = x.v
    ELSE ""


\* ------------------------------------------------------------ parse_request

\* LLMAgent.__init__ (lines 54-63) sets openai.api_key and self.model; it
\* never assigns self.api_key, which lines 191 and 240 read.
HasApiKeyAttr == FALSE

\* The --llm-model choices (agentic_workflow.py line 350).
AgentModels == {"gpt-5", "gpt-5-nano", "gpt-4", "gpt-3.5-turbo"}

\* str(self.model).startswith("gpt-5") (line 136)
UsesHttpPath(model) == model \in {"gpt-5", "gpt-5-nano"}

\* The attempts of lines 195-199.
Attempts ==
    << [max_tokens |-> 512, format |-> "json_schema"],
       [max_tokens |-> 1024, format |-> "json_schema"],
       [max_tokens |-> 1024, format |-> "json_object"] >>

Call(model, max_tokens, format) ==
    [model |-> model, max_tokens |-> max_tokens, format |-> format]

\* What parse_request gives its caller: a request or LLMParsingError, with
\* the collaborator calls it made and whether _fallback_parse ran.
Returned(req, calls, fb) ==
    [kind |-> "request", request |-> <<req>>, reason |-> "none",
     calls |-> calls, fallback |-> fb]

LLMParsingError(reason, calls) ==
    [kind |-> "LLMParsingError", request |-> <<>>, reason |-> reason,
     calls |-> calls, fallback |-> FALSE]

\* Mutant: without the handler of lines 302-305 the exception reaches the
\* caller.
except_Exception_reraised(text, calls) ==
    [kind |-> "Exception", request |-> <<>>, reason |-> "none",
     calls |-> calls, fallback |-> FALSE]

\* Lines 302-305: any other exception ends in the regex parser.
except_Exception(text, calls) == Returned(fallback_parse(text), calls, TRUE)

\* Lines 277-297: the request out of the parsed data; a value that is no
\* object (TypeError), a missing key (KeyError) or an unknown resource type
\* (ValueError) is an exception of lines 302-305.
build_request(j, text, calls) ==
    LET o == j.obj
        k_type == <<"r", "e", "s", "o", "u", "r", "c", "e", "_", "t", "y", "p", "e">>
        k_name == <<"n", "a", "m", "e">>
    IN  IF ~j.dict THEN except_Exception(text, calls)
        ELSE IF k_type \notin DOMAIN o THEN except_Exception(text, calls)
        ELSE IF ResourceTypeOf(o[k_type]) = ""
        THEN except_Exception(text, calls)
        ELSE IF k_name \notin DOMAIN o THEN except_Exception(text, calls)
        ELSE Returned(
               [resource_type |-> ResourceTypeOf(o[k_type]),
                name |-> FromJson(o[k_name]),
                region |-> Get(o, <<"r", "e", "g", "i", "o", "n">>, PyStr(s_us_east_1)),
                environment |-> Get(o, <<"e", "n", "v", "i", "r", "o", "n", "m", "e", "n", "t">>, PyStr(s_development)),
                node_count |-> Get(o, <<"n", "o", "d", "e", "_", "c", "o", "u", "n", "t">>, None),
                kubernetes_version |-> Get(o, <<"k", "u", "b", "e", "r", "n", "e", "t", "e", "s", "_", "v", "e", "r", "s", "i", "o", "n">>, None),
                instance_types |->
                    IF <<"i", "n", "s", "t", "a", "n", "c", "e", "_", "t", "y", "p", "e", "s">> \in DOMAIN o
                    THEN <<FromJson(o[<<"i", "n", "s", "t", "a", "n", "c", "e", "_", "t", "y", "p", "e", "s">>])>> ELSE <<>>,
                versioning |-> Get(o, <<"v", "e", "r", "s", "i", "o", "n", "i", "n", "g">>, None),
                encryption |-> Get(o, <<"e", "n", "c", "r", "y", "p", "t", "i", "o", "n">>, None),
                engine |-> Get(o, <<"e", "n", "g", "i", "n", "e">>, None),
                instance_class |-> Get(o, <<"i", "n", "s", "t", "a", "n", "c", "e", "_", "c", "l", "a", "s", "s">>, None),
                allocated_storage |-> Get(o, <<"a", "l", "l", "o", "c", "a", "t", "e", "d", "_", "s", "t", "o", "r", "a", "g", "e">>, None),
                tags |->
                    IF <<"t", "a", "g", "s">> \in DOMAIN o
                    THEN <<FromJson(o[<<"t", "a", "g", "s">>])>> ELSE <<PyDict(<<>>)>>,
                description |-> Get(o, <<"d", "e", "s", "c", "r", "i", "p", "t", "i", "o", "n">>, None)],
               calls, FALSE)

\* Mutant: the decoding error is left to the handler of lines 302-305.
on_json_decode_error_swallowed(text, calls) == except_Exception(text, calls)

\* Lines 272-275 and 299-301: a decoding error becomes LLMParsingError, which
\* is raised to the caller.
on_json_decode_error(text, calls) == LLMParsingError("invalid_json", calls)

\* Lines 262-297, from the content of the answer on.
parse_content(content, text, calls) ==
    LET u == Unwrap(content)
        j == json_loads(u)
    IN  IF u = <<>> THEN LLMParsingError("empty", calls)
        ELSE IF ~j.ok THEN on_json_decode_error(text, calls)
        ELSE build_request(j, text, calls)

\* An answer of the collaborator: the call raises, or the message carries a
\* content (none: the content is null).
Raises == [kind |-> "raise", none |-> FALSE, text |-> <<>>]
NullContent == [kind |-> "content", none |-> TRUE, text |-> <<>>]
Content(c) == [kind |-> "content", none |-> FALSE, text |-> c]

\* The legacy SDK path (lines 248-260), one call; a null content has no
\* strip() (AttributeError).
parse_legacy(model, text, answers, k, calls) ==
    LET made == Append(calls, Call(model, 500, "text"))
        a == answers[k]
    IN  IF a.kind = "raise" \/ a.none THEN except_Exception(text, made)
        ELSE parse_content(Strip(a.text), text, made)

\* The loop of lines 205-235 from attempt i on, answers[k] being the next
\* answer, and lines 237-241 after it: an attempt that raises or answers
\* without content leads to the next one; with no content after the last,
\* a gpt-3.5-turbo agent parses the request.
RECURSIVE parse_http(_, _, _, _, _, _)
parse_http(model, text, answers, k, i, calls) ==
    IF i > Len(Attempts)
    THEN parse_legacy("gpt-3.5-turbo", text, answers, k, calls)
    ELSE LET made == Append(calls, Call(model, Attempts[i].max_tokens,
                                        Attempts[i].format))
             a == answers[k]
         IN  IF a.kind = "raise" \/ a.none \/ Strip(a.text) = <<>>
             THEN parse_http(model, text, answers, k + 1, i + 1, made)
             ELSE parse_content(Strip(a.text), text, made)

\* parse_request (lines 65-305) of an agent for `model`, the collaborator
\* answering answers[1], answers[2], ... to the successive calls. On the
\* HTTP path the headers are built first (lines 189-192): reading
\* self.api_key raises AttributeError before any call.
parse_request(model, text, answers) ==
    IF UsesHttpPath(model)
    THEN IF ~HasApiKeyAttr THEN except_Exception(text, <<>>)
         ELSE parse_http(model, text, answers, 1, 1, <<>>)
    ELSE parse_legacy(model, text, answers, 1, <<>>)


\* --------------------------------------------------- collaborator answers

LB == Tok("{")
RB == Tok("}")
Colon == Tok(":")
Comma == Tok(",")
WS == Tok("ws")
NL == Tok("nl")
Fence == Tok("fence")

\* "key": value
Member(k, x) == <<JStr(k), Colon, WS, x>>

j_type(v) == Member(<<"r", "e", "s", "o", "u", "r", "c", "e", "_", "t", "y", "p", "e">>, JStr(v))
j_name(v) == Member(<<"n", "a", "m", "e">>, JStr(v))

\* A production bucket.
c_bucket ==
    <<LB>> \o j_type(<<"s", "3", "_", "b", "u", "c", "k", "e", "t">>) \o <<Comma, WS>> \o j_name(<<"c", "u", "s", "t", "o", "m", "e", "r", "-", "d", "a", "t", "a">>)
    \o <<Comma, WS>> \o Member(<<"e", "n", "v", "i", "r", "o", "n", "m", "e", "n", "t">>, JStr(s_production))
    \o <<Comma, WS>> \o Member(<<"v", "e", "r", "s", "i", "o", "n", "i", "n", "g">>, Tok("true")) \o <<RB>>

\* A cluster of three nodes with the defaults.
c_cluster ==
    <<LB>> \o j_type(<<"e", "k", "s", "_", "c", "l", "u", "s", "t", "e", "r">>) \o <<Comma, WS>> \o j_name(<<"a", "n", "a", "l", "y", "t", "i", "c", "s">>)
    \o <<Comma, WS>> \o Member(<<"n", "o", "d", "e", "_", "c", "o", "u", "n", "t">>, JNum(3)) \o <<RB>>

\* A cluster of three nodes with a tag.
c_tagged ==
    <<LB>> \o j_type(<<"e", "k", "s", "_", "c", "l", "u", "s", "t", "e", "r">>) \o <<Comma, WS>> \o j_name(<<"a", "n", "a", "l", "y", "t", "i", "c", "s">>)
    \o <<Comma, WS>> \o Member(<<"n", "o", "d", "e", "_", "c", "o", "u", "n", "t">>, JNum(3))
    \o <<Comma, WS>>
    \o Member(<<"t", "a", "g", "s">>, JObj(<<<<<<"c", "o", "s", "t", "_", "c", "e", "n", "t", "e", "r">>, PyStr(<<"x">>)>>>>)) \o <<RB>>

\* A cluster of twenty-five nodes.
c_cluster_large ==
    <<LB>> \o j_type(<<"e", "k", "s", "_", "c", "l", "u", "s", "t", "e", "r">>) \o <<Comma, WS>> \o j_name(<<"a", "n", "a", "l", "y", "t", "i", "c", "s">>)
    \o <<Comma, WS>> \o Member(<<"n", "o", "d", "e", "_", "c", "o", "u", "n", "t">>, JNum(25)) \o <<RB>>

\* A database with little storage on an engine that is not offered.
c_database ==
    <<LB>> \o j_type(<<"r", "d", "s", "_", "d", "a", "t", "a", "b", "a", "s", "e">>) \o <<Comma, WS>> \o j_name(<<"o", "r", "d", "e", "r", "s", "_", "d", "b">>)
    \o <<Comma, WS>> \o Member(<<"e", "n", "g", "i", "n", "e">>, JStr(<<"o", "r", "a", "c", "l", "e">>))
    \o <<Comma, WS>> \o Member(<<"a", "l", "l", "o", "c", "a", "t", "e", "d", "_", "s", "t", "o", "r", "a", "g", "e">>, JNum(10)) \o <<RB>>

\* A bucket whose name is too short and in upper case.
c_short == <<LB>> \o j_type(<<"s", "3", "_", "b", "u", "c", "k", "e", "t">>) \o <<Comma, WS>> \o j_name(<<"A", "B">>) \o <<RB>>

c_null_name ==
    <<LB>> \o j_type(<<"v", "p", "c">>) \o <<Comma, WS>> \o Member(<<"n", "a", "m", "e">>, Tok("null")) \o <<RB>>

c_unknown_type == <<LB>> \o j_type(<<"l", "a", "m", "b", "d", "a">>) \o <<Comma, WS>> \o j_name(<<"r", "e", "s", "i", "z", "e">>) \o <<RB>>

c_no_name == <<LB>> \o j_type(<<"v", "p", "c">>) \o <<RB>>

c_list == <<Tok("["), Tok("]")>>

\* The bucket inside ```json ... ``` and inside bare fences.
c_fenced == <<Fence, Word(<<"j", "s", "o", "n">>), NL>> \o c_bucket \o <<NL, Fence>>
c_bare_fenced == <<Fence, NL>> \o c_bucket \o <<NL, Fence>>

\* An answer cut off by the token limit, one introduced by a sentence, and
\* fences around nothing.
c_truncated == <<LB>> \o j_type(<<"s", "3", "_", "b", "u", "c", "k", "e", "t">>) \o <<Comma, WS>> \o <<JStr(<<"n", "a", "m", "e">>), Colon>>
c_prose == <<Word(<<"H", "e", "r", "e">>), WS, Word(<<"i", "s">>), WS, Word(<<"t", "h", "e">>), WS, Word(<<"J", "S", "O", "N">>), Colon, NL>> \o c_bucket
c_fenced_truncated == <<Fence, Word(<<"j", "s", "o", "n">>), NL>> \o c_truncated \o <<NL, Fence>>
c_fences_only == <<Fence, Fence>>

c_empty == <<>>
c_blank == <<WS, NL>>

Contents ==
    {c_bucket, c_cluster, c_cluster_large, c_database, c_short, c_null_name,
     c_unknown_type, c_no_name, c_list, c_fenced, c_bare_fenced, c_truncated,
     c_prose, c_fenced_truncated, c_fences_only, c_empty, c_blank, c_tagged}

Replies == {Raises, NullContent} \cup {Content(c) : c \in Contents}

\* The answers after the first are drawn from these.
LaterReplies == {Raises, Content(c_empty), Content(c_bucket)}

\* One request makes at most the three attempts and the call of the
\* gpt-3.5-turbo agent.
MaxCalls == Len(Attempts) + 1

Scripts ==
    {<<a>> \o later : a \in Replies, later \in [1..MaxCalls - 1 -> LaterReplies]}

\* The scripts of the pipeline: every first answer, the later calls fail.
PipelineScripts ==
    {<<a>> \o [i \in 1..MaxCalls - 1 |-> Raises] : a \in Replies}


\* =============================================================== Validator

\* agentic_workflow.py imports ResourceType from .llm_agent (line 13), the
\* generator from llm_agent (enhanced_resource_generator.py line 14). Where
\* the two names load the file as two modules there are two enum classes,
\* and no member of one equals a member of the other; `shared` says that
\* the caller's ResourceType is the generator's.
TypeIs(request, m, shared) == shared /\ request.resource_type = m

\* str.isalnum()
IsAlnum(s) ==
    s # <<>> /\ \A i \in 1..Len(s) : s[i] \in LowerSet \cup UpperSet \cup DigitSet

\* $ of a regular expression at position i: the end, or a final newline.
EndsAt(s, i) == i = Len(s) + 1 \/ (i = Len(s) /\ s[i] = "\n")

\* re.match(r'^\d+\.\d+(\.\d+)?$', s)
VersionMatches(s) ==
    LET a == RunLen(s, 1, DigitSet)
        b == RunLen(s, a + 2, DigitSet)
        c == RunLen(s, a + b + 3, DigitSet)
    IN  /\ a >= 1
        /\ a + 1 <= Len(s) /\ s[a + 1] = "."
        /\ b >= 1
        /\ \/ EndsAt(s, a + b + 2)
           \/ /\ a + b + 2 <= Len(s) /\ s[a + b + 2] = "."
              /\ c >= 1
              /\ EndsAt(s, a + b + c + 3)

\* re.match(r'^[a-z0-9.-]+$', s)
BucketNameMatches(s) ==
    LET a == RunLen(s, 1, LowerSet \cup DigitSet \cup {".", "-"})
    IN  a >= 1 /\ EndsAt(s, a + 1)

SupportedEngines == {<<"m", "y", "s", "q", "l">>, <<"p", "o", "s", "t", "g", "r", "e", "s">>, <<"m", "a", "r", "i", "a", "d", "b">>}

Cond(b, issue) == IF b THEN <<issue>> ELSE <<>>

\* validate_request raises where a field has no len(), no replace() or no
\* order with an integer, or is no string for re.match.
validate_raises(request, shared) ==
    \/ request.name.t # "str"
    \/ /\ TypeIs(request, "EKS_CLUSTER", shared)
       /\ \/ request.node_count.t = "str" /\ Truthy(request.node_count)
          \/ request.kubernetes_version.t # "str"
             /\ Truthy(request.kubernetes_version)
    \/ /\ TypeIs(request, "RDS_DATABASE", shared)
       /\ request.allocated_storage.t = "str"
       /\ Truthy(request.allocated_storage)

name_too_short_or_minimal(name) == ~Truthy(name) \/ Len(name.v) <= 3

\* Line 505: not request.name or len(request.name) < 3, of a string.
name_too_short(name) == ~Truthy(name) \/ Len(name.v) < 3

\* The issues of lines 502-539, in the order they are appended.
validate_issues(request, shared) ==
    LET name == request.name.v
        stripped == SelectSeq(name, LAMBDA ch : ch \notin {"-", "_"})
    IN  Cond(name_too_short(request.name),
             "Resource name must be at least 3 characters long")
        \o Cond(~IsAlnum(stripped),
             "Resource name can only contain letters, numbers, hyphens, and underscores")
        \o (IF TypeIs(request, "EKS_CLUSTER", shared)
            THEN Cond(Truthy(request.node_count) /\ request.node_count.n < 1,
                      "Node count must be at least 1")
                 \o Cond(Truthy(request.node_count) /\ request.node_count.n > 20,
                      "Node count should not exceed 20 without special consideration")
                 \o Cond(Truthy(request.kubernetes_version)
                         /\ ~VersionMatches(request.kubernetes_version.v),
                      "Kubernetes version must be in format X.Y or X.Y.Z")
            ELSE IF TypeIs(request, "S3_BUCKET", shared)
            THEN Cond(Len(name) > 63,
                      "S3 bucket name cannot exceed 63 characters")
                 \o Cond(~BucketNameMatches(name),
                      "S3 bucket name can only contain lowercase letters, numbers, dots, and hyphens")
            ELSE IF TypeIs(request, "RDS_DATABASE", shared)
            THEN Cond(Truthy(request.allocated_storage)
                         /\ request.allocated_storage.n < 20,
                      "RDS allocated storage must be at least 20 GB")
                 \o Cond(Truthy(request.engine)
                         /\ ~(request.engine.t = "str"
                              /\ request.engine.v \in SupportedEngines),
                      "Supported database engines: mysql, postgres, mariadb")
            ELSE <<>>)

\* validate_request (lines 492-541): the list of issues, or an exception.
validate_request(request, shared) ==
    IF validate_raises(request, shared)
    THEN [raised |-> TRUE, issues |-> <<>>]
    ELSE [raised |-> FALSE, issues |-> validate_issues(request, shared)]


\* ============================================================= Synthesizer

\* request.tags.items() (lines 78-79, 209-210, 297-298) where the tags are
\* truthy and no dict.
tags_update_raises(request) ==
    OptTruthy(request.tags) /\ request.tags[1].t # "dict"

\* _generate_eks_addons (lines 379-416): the names of the two add-on objects.
generate_eks_addons == <<"aws_load_balancer_controller", "ebs_csi_driver">>

eks_addons_included_always(request) == TRUE

\* Line 194: the add-ons join the cluster's objects for production only.
eks_addons_included(request) == request.environment = PyStr(s_production)

\* generate_from_request (lines 23-42) and the _generate_* it calls: the
\* names of the configuration objects in the order of the dict, or an
\* exception (line 42 where no member compares equal).
generate_from_request(request, shared) ==
    IF TypeIs(request, "EKS_CLUSTER", shared)
    THEN [raised |-> tags_update_raises(request),
          configs |-> <<"provider_config", "cluster", "node_group">>
                      \o (IF eks_addons_included(request)
                          THEN generate_eks_addons
                          ELSE <<>>)]
    ELSE IF TypeIs(request, "S3_BUCKET", shared)
    THEN [raised |-> tags_update_raises(request), configs |-> <<"bucket">>]
    ELSE IF TypeIs(request, "RDS_DATABASE", shared)
    THEN [raised |-> tags_update_raises(request), configs |-> <<"database">>]
    ELSE IF TypeIs(request, "VPC", shared)
    THEN [raised |-> FALSE, configs |-> <<"vpc">>]
    ELSE [raised |-> TRUE, configs |-> <<>>]

\* str(value) as the f-strings of lines 52, 127, 140 apply it to
\* request.name; defined for the values a name takes here.
RECURSIVE Decimal(_)
Decimal(k) ==
    IF k < 10 THEN <<Digits[k + 1]>>
    ELSE Decimal(k \div 10) \o <<Digits[(k % 10) + 1]>>

format_value(x) ==
    CASE x.t = "str" -> x.v
      [] x.t = "none" -> <<"N", "o", "n", "e">>
      [] x.t = "bool" -> IF x.n = 1 THEN <<"T", "r", "u", "e">> ELSE <<"F", "a", "l", "s", "e">>
      [] x.t = "int" -> IF x.n < 0 THEN <<"-">> \o Decimal(0 - x.n)
                        ELSE Decimal(x.n)

\* f"{request.name}-provider-config" (lines 52, 127, 182, 275, 334, 372).
provider_config_name(request) ==
    PyStr(format_value(request.name) \o <<"-", "p", "r", "o", "v", "i", "d", "e", "r", "-", "c", "o", "n", "f", "i", "g">>)

\* spec.credentials.secretRef of the provider configuration (lines 61-65).
aws_secret ==
    [namespace |-> "crossplane-system", name |-> "aws-secret",
     key |-> "credentials"]

\* str.replace("_", "-") and str.title() (lines 79, 210, 298): a letter
\* after a letter is lowered, every other letter is raised.
IsLetter(c) == c \in LowerSet \cup UpperSet

UpperChar(c) ==
    IF c \in LowerSet THEN UpperLetters[IndexIn(LowerLetters, c)] ELSE c

Title(s) ==
    [i \in 1..Len(s) |->
        IF i > 1 /\ IsLetter(s[i - 1]) THEN LowerChar(s[i])
        ELSE UpperChar(s[i])]

normalized_key(k) == Title([i \in 1..Len(k) |-> IF k[i] = "_" THEN "-" ELSE k[i]])

\* A dict is the sequence of its items, each a key and a value.
Keys(d) == {d[i][1] : i \in 1..Len(d)}

Value(d, k) == d[CHOOSE i \in 1..Len(d) : d[i][1] = k][2]

setitem_keeping(d, k, v) ==
    IF k \in Keys(d) THEN d ELSE Append(d, <<k, v>>)

\* d[k] = v
setitem(d, k, v) ==
    IF k \in Keys(d)
    THEN [i \in 1..Len(d) |-> IF d[i][1] = k THEN <<k, v>> ELSE d[i]]
    ELSE Append(d, <<k, v>>)

\* dict.update(u): the items of u are set in their order.
RECURSIVE dict_update(_, _)
dict_update(d, u) ==
    IF u = <<>> THEN d
    ELSE dict_update(setitem(d, u[1][1], u[1][2]), Tail(u))

\* {k.replace("_", "-").title(): v for k, v in request.tags.items()}
normalized_tags(items) ==
    dict_update(<<>>, [i \in 1..Len(items) |->
                         <<normalized_key(items[i][1]), items[i][2]>>])

datetime_now_of_call == clock + Len(called_at)

\* datetime.now() (lines 74, 206, 293): the clock as the call finds it.
datetime_now == clock

\* datetime.isoformat(): one string for each instant.
isoformat(now) == PyStr(Decimal(now))

\* The tags dict of lines 71-76, 203-207, 290-295.
system_tags(role, request, now) ==
    <<<<<<"E", "n", "v", "i", "r", "o", "n", "m", "e", "n", "t">>, request.environment>>,
      <<<<"C", "r", "e", "a", "t", "e", "d", "B", "y">>, PyStr(<<"c", "r", "o", "s", "s", "p", "l", "a", "n", "e", "-", "a", "u", "t", "o", "m", "a", "t", "i", "o", "n">>)>>,
      <<<<"C", "r", "e", "a", "t", "e", "d", "A", "t">>, isoformat(now)>>>>
    \o (CASE role = "cluster" -> <<<<<<"O", "w", "n", "e", "r">>, PyStr(<<"p", "l", "a", "t", "f", "o", "r", "m", "-", "t", "e", "a", "m">>)>>>>
          [] role = "database" ->
               <<<<<<"E", "n", "g", "i", "n", "e">>, IF Truthy(request.engine) THEN request.engine
                               ELSE PyStr(<<"m", "y", "s", "q", "l">>)>>>>
          [] OTHER -> <<>>)

\* Lines 78-79, 209-210, 297-298: the tags of the request join the dict.
merged_tags(role, request, now) ==
    IF OptTruthy(request.tags)
    THEN dict_update(system_tags(role, request, now),
                     normalized_tags(request.tags[1].v))
    ELSE system_tags(role, request, now)

\* spec.forProvider.tags of the object, where it has tags (lines 124,
\* 175-179, 272, 331, 365-369).
tags_of(role, request, now) ==
    CASE role \in {"cluster", "bucket", "database"} ->
           <<merged_tags(role, request, now)>>
      [] role = "node_group" ->
           <<<<<<<<"E", "n", "v", "i", "r", "o", "n", "m", "e", "n", "t">>, request.environment>>,
               <<<<"C", "l", "u", "s", "t", "e", "r">>, request.name>>,
               <<<<"N", "o", "d", "e", "G", "r", "o", "u", "p">>,
                 PyStr(format_value(request.name) \o <<"-", "n", "o", "d", "e", "-", "g", "r", "o", "u", "p">>)>>>>>>
      [] role = "vpc" ->
           <<<<<<<<"N", "a", "m", "e">>, request.name>>,
               <<<<"E", "n", "v", "i", "r", "o", "n", "m", "e", "n", "t">>, request.environment>>,
               <<<<"C", "r", "e", "a", "t", "e", "d", "B", "y">>, PyStr(<<"c", "r", "o", "s", "s", "p", "l", "a", "n", "e", "-", "a", "u", "t", "o", "m", "a", "t", "i", "o", "n">>)>>>>>>
      [] OTHER -> <<>>

\* One configuration object: its key in the returned dict, its kind,
\* metadata.name, metadata.labels.environment where the object has the
\* label, spec.providerConfigRef.name where it has the reference,
\* spec.credentials.secretRef where it has the credentials, and
\* spec.forProvider.tags where it has tags.
Document(role, kind, name, environment, providerConfigRef, secretRef, tags) ==
    [role |-> role, kind |-> kind, name |-> name,
     environment |-> environment, providerConfigRef |-> providerConfigRef,
     secretRef |-> secretRef, tags |-> tags]

Max(a, b) == IF a >= b THEN a ELSE b

\* Line 134: request.node_count or 3.
node_count_or_default(request) ==
    IF Truthy(request.node_count) THEN request.node_count.n ELSE 3

\* Lines 155-159: the scalingConfig of the node group.
scalingConfig(request) ==
    LET node_count == node_count_or_default(request)
    IN  [minSize |-> Max(1, node_count - 1),
         maxSize |-> node_count * 2,
         desiredSize |-> node_count]

\* x == False in Python: the bool False and the int 0.
EqualsFalse(x) == x.t \in {"bool", "int"} /\ x.n = 0

\* Mutant: the status follows the truth value of the flag.
versioningConfiguration_truthy(request) ==
    [status |-> IF Truthy(request.versioning) THEN "Enabled" ELSE "Suspended"]

\* Lines 228-230.
versioningConfiguration(request) ==
    [status |-> IF ~EqualsFalse(request.versioning) THEN "Enabled"
                ELSE "Suspended"]

\* Lines 231-242: the dict with its one rule, or the empty dict.
serverSideEncryptionConfiguration(request) ==
    IF EqualsFalse(request.encryption)
    THEN [keys |-> {}, sseAlgorithm |-> "none", kmsMasterKeyID |-> "none",
          bucketKeyEnabled |-> FALSE]
    ELSE [keys |-> {"rules"},
          sseAlgorithm |-> IF ~Truthy(request.encryption) THEN "AES256"
                           ELSE "aws:kms",
          kmsMasterKeyID |-> IF Truthy(request.encryption) THEN "kmsKeyArn"
                             ELSE "None",
          bucketKeyEnabled |-> Truthy(request.encryption)]

\* Lines 224-272: the keys of spec.forProvider of the bucket, and the two
\* values that depend on the flags of the request.
bucket_forProvider(request) ==
    [keys |-> {"region", "acl", "versioningConfiguration",
               "serverSideEncryptionConfiguration",
               "publicAccessBlockConfiguration", "lifecycleConfiguration",
               "tags"},
     versioningConfiguration |-> versioningConfiguration(request),
     serverSideEncryptionConfiguration |->
         serverSideEncryptionConfiguration(request)]

\* The objects of _generate_eks_cluster (lines 47-68, 82-134, 136-185),
\* _generate_s3_bucket (212-278), _generate_rds_database (300-341),
\* _generate_vpc (349-375) and _generate_eks_addons (385-414).
configuration(role, request, now) ==
    CASE role = "provider_config" ->
           Document(role, "ProviderConfig", provider_config_name(request),
                    <<request.environment>>, <<>>, <<aws_secret>>, <<>>)
      [] role = "cluster" ->
           Document(role, "Cluster", request.name,
                    <<request.environment>>,
                    <<provider_config_name(request)>>, <<>>,
                    tags_of(role, request, now))
      [] role = "node_group" ->
           Document(role, "NodeGroup",
                    PyStr(format_value(request.name) \o <<"-", "n", "o", "d", "e", "-", "g", "r", "o", "u", "p">>),
                    <<request.environment>>,
                    <<provider_config_name(request)>>, <<>>,
                    tags_of(role, request, now))
             @@ [scalingConfig |-> scalingConfig(request)]
      [] role = "aws_load_balancer_controller" ->
           Document(role, "Addon",
                    PyStr(format_value(request.name)
                          \o <<"-", "a", "w", "s", "-", "l", "o", "a", "d", "-", "b", "a", "l", "a", "n", "c", "e", "r", "-", "c", "o", "n", "t", "r", "o", "l", "l", "e", "r">>),
                    <<>>, <<>>, <<>>, <<>>)
      [] role = "ebs_csi_driver" ->
           Document(role, "Addon",
                    PyStr(format_value(request.name) \o <<"-", "e", "b", "s", "-", "c", "s", "i", "-", "d", "r", "i", "v", "e", "r">>),
                    <<>>, <<>>, <<>>, <<>>)
      [] role = "bucket" ->
           Document(role, "Bucket", request.name, <<request.environment>>,
                    <<provider_config_name(request)>>, <<>>,
                    tags_of(role, request, now))
             @@ [forProvider |-> bucket_forProvider(request)]
      [] role = "database" ->
           Document(role, "RDSInstance", request.name,
                    <<request.environment>>,
                    <<provider_config_name(request)>>, <<>>,
                    tags_of(role, request, now))
      [] role = "vpc" ->
           Document(role, "VPC", request.name, <<request.environment>>,
                    <<provider_config_name(request)>>, <<>>,
                    tags_of(role, request, now))

tags_is_request_tags == FALSE

\* Lines 71, 203 and 290 bind tags to a new dict: tags.update writes that
\* dict, and no other statement of the generator writes a field of the
\* request or a list or dict that a field holds.
tags_is_new_dict == TRUE

\* The request as generate_from_request leaves it.
request_after_generate(request, shared, now) ==
    IF /\ ~tags_is_new_dict
       /\ OptTruthy(request.tags) /\ request.tags[1].t = "dict"
       /\ \E m \in {"EKS_CLUSTER", "S3_BUCKET", "RDS_DATABASE"} :
              TypeIs(request, m, shared)
    THEN [request EXCEPT
            !.tags = <<PyDict(merged_tags(
                 IF TypeIs(request, "EKS_CLUSTER", shared) THEN "cluster"
                 ELSE IF TypeIs(request, "S3_BUCKET", shared) THEN "bucket"
                 ELSE "database", request, now))>>]
    ELSE request

\* What generate_from_request returns with the clock at now: the
\* configuration objects in the order of the dict, or an exception.
generate_documents(request, shared, now) ==
    LET g == generate_from_request(request, shared)
    IN  [raised |-> g.raised,
         documents |-> IF g.raised THEN <<>>
                       ELSE [i \in 1..Len(g.configs) |->
                               configuration(g.configs[i], request, now)]]

\* save_configurations_as_files (lines 445-490): one file for each
\* configuration object, in their order, or an exception where the local
\* copy cannot be written (lines 479-480).
save_configurations_as_files(request, configs, disk_ok) ==
    [raised |-> configs # <<>> /\ ~disk_ok,
     files |-> [i \in 1..Len(configs) |->
                  [environment |-> request.environment,
                   name |-> request.name,
                   config_name |-> configs[i]]]]

\* request.node_count < 3 (line 368) has no meaning for a string, nor has
\* "cost-center" not in request.tags (line 374) for an integer or a boolean.
suggestions_raise(request) ==
    /\ request.resource_type = "EKS_CLUSTER"
    /\ \/ request.node_count.t = "str" /\ Truthy(request.node_count)
       \/ OptTruthy(request.tags) /\ request.tags[1].t \in {"int", "bool"}

HasCostCenter(tags) ==
    IF tags.t = "str" THEN Contains(tags.v, <<"c", "o", "s", "t", "-", "c", "e", "n", "t", "e", "r">>)
    ELSE \E i \in 1..Len(tags.v) : tags.v[i][1] = <<"c", "o", "s", "t", "-", "c", "e", "n", "t", "e", "r">>

\* generate_enhancement_suggestions (llm_agent.py lines 354-389).
generate_enhancement_suggestions(request) ==
    (IF request.resource_type = "EKS_CLUSTER"
     THEN Cond(Truthy(request.node_count) /\ request.node_count.n < 3,
               "Consider using at least 3 nodes for high availability")
          \o Cond(request.environment = PyStr(s_production)
                  /\ ~OptTruthy(request.instance_types),
               "For production, consider specifying instance types like ['m6i.large', 'm6i.xlarge']")
          \o Cond(~OptTruthy(request.tags) \/ ~HasCostCenter(request.tags[1]),
               "Consider adding cost-center tags for billing tracking")
     ELSE IF request.resource_type = "S3_BUCKET"
     THEN Cond(request.encryption = None,
               "Consider enabling encryption for security")
          \o Cond(request.versioning = None,
               "Consider enabling versioning for data protection")
     ELSE <<>>)
    \o (IF request.environment = PyStr(s_production)
        THEN <<"Ensure backup and disaster recovery plans are in place",
               "Consider implementing monitoring and alerting">>
        ELSE <<>>)


\* ============================================================ Orchestrator

\* The run of the Publisher that process_request starts.
TheRun == "r1"

NoParse ==
    [kind |-> "none", request |-> <<>>, reason |-> "none", calls |-> <<>>,
     fallback |-> FALSE]

\* pr_info: the dict create_automated_pr returned (lines 276-281), or the
\* dict _create_pr makes of a GitHubAPIError (line 265). keys are the keys
\* of the dict.
NoPrInfo ==
    [keys |-> {}, branch |-> "none", commits |-> <<>>,
     pull_request |-> "none", error |-> NoExc]

PrResult(o) ==
    [keys |-> {"branch", "commits", "pull_request"},
     branch |-> o.branch, commits |-> o.commits,
     pull_request |-> o.pull_request, error |-> NoExc]

PrError(e) ==
    [keys |-> {"status", "error"}, branch |-> "none", commits |-> <<>>,
     pull_request |-> "none", error |-> e]

\* The dict process_request returns: its keys, and the values of those the
\* callers read.
NoResult ==
    [status |-> "none", keys |-> {}, stage |-> "none", issues |-> <<>>,
     suggestions |-> <<>>, files |-> <<>>, pr_info |-> NoPrInfo,
     error |-> NoExc]

\* Line 88.
ParsingFailed ==
    [NoResult EXCEPT !.status = "error",
                     !.keys = {"status", "message", "paused", "stage"},
                     !.stage = "llm_parsing"]

\* Line 109.
ValidationFailed(is) ==
    [NoResult EXCEPT !.status = "error", !.keys = {"status", "issues"},
                     !.issues = is]

\* Mutant: without the handler of lines 158-160 the exception leaves
\* process_request and the caller gets no result.
Failed_escapes(e) == NoResult

\* Lines 158-160: any other exception.
Failed(e) ==
    [NoResult EXCEPT !.status = "error", !.keys = {"status", "error"},
                     !.error = e]

\* Lines 136-142.
Success(sugg, fs) ==
    [NoResult EXCEPT !.status = "success",
                     !.keys = {"status", "request", "suggestions", "configs",
                               "files"},
                     !.suggestions = sugg, !.files = fs]

\* Line 148.
WithPrInfo(res, info) ==
    [res EXCEPT !.keys = @ \cup {"pr_info"}, !.pr_info = info]

Raised(type, where) == [type |-> type, at |-> where]

\* _create_pr, lines 249-265: the result of the Publisher is returned;
\* GitHubAPIError becomes an error dict that is returned as well; any other
\* exception leaves _create_pr.
create_pr_result(o) ==
    IF o.kind = "returned" THEN PrResult(o)
    ELSE IF o.error.type = "GitHubAPIError" THEN PrError(o.error)
    ELSE NoPrInfo

\* Mutant: the validation issues do not stop the pipeline.
stops_on_issues_never(is) == FALSE

\* Line 105: if validation_issues.
stops_on_issues(is) == is # <<>>

\* Step 1 (lines 84-88): parse_request; LLMParsingError ends the request.
process_request_parse ==
    /\ ppc = "idle"
    /\ \E text \in UserInputs, pr \in BOOLEAN, answers \in PipelineScripts :
         LET p == parse_request(llm_model, text, answers)
         IN  /\ user_input' = text
             /\ auto_create_pr' = pr
             /\ parsed' = p
             /\ result' = IF p.kind = "LLMParsingError" THEN ParsingFailed
                          ELSE result
             /\ ppc' = IF p.kind = "LLMParsingError" THEN "done"
                       ELSE "validate"
    /\ invoked' = Append(invoked, "parse_request")
    /\ UNCHANGED <<webvars, genvars, pubvars, llm_model, asked, enum_shared, issues>>

\* Step 2 (lines 101-111): validate_request; issues end the request.
process_request_validate ==
    /\ ppc = "validate"
    /\ LET v == validate_request(parsed.request[1], enum_shared)
       IN  /\ issues' = v.issues
           /\ result' =
                IF v.raised THEN Failed(Raised("Exception", "validate_request"))
                ELSE IF stops_on_issues(v.issues) THEN ValidationFailed(v.issues)
                ELSE result
           /\ ppc' = IF v.raised \/ stops_on_issues(v.issues) THEN "done"
                     ELSE "prepare"
    /\ invoked' = Append(invoked, "validate_request")
    /\ UNCHANGED <<webvars, genvars, pubvars, resvars, enum_shared, auto_create_pr>>


\* Steps 3 to 5 (lines 113-142) and the call of _create_pr (lines 145-148):
\* suggestions, configurations and files; with auto_create_pr the Publisher
\* is started on the files (create_automated_pr, lines 253-255).
process_request_prepare ==
    /\ ppc = "prepare"
    /\ \E disk_ok \in BOOLEAN, b \in BranchNames :
         LET request == parsed.request[1]
             sugg == generate_enhancement_suggestions(request)
             gen == generate_from_request(request, enum_shared)
             after == [parsed EXCEPT !.request =
                         <<request_after_generate(request, enum_shared,
                                                  datetime_now)>>]
             saved == save_configurations_as_files(request, gen.configs, disk_ok)
         IN  IF suggestions_raise(request)
             THEN /\ invoked' = Append(invoked, "generate_enhancement_suggestions")
                  /\ result' = Failed(Raised("Exception",
                                             "generate_enhancement_suggestions"))
                  /\ ppc' = "done"
                  /\ UNCHANGED <<pubvars, parsed>>
             ELSE IF gen.raised
             THEN /\ invoked' = invoked \o <<"generate_enhancement_suggestions",
                                            "generate_from_request">>
                  /\ result' = Failed(Raised("Exception", "generate_from_request"))
                  /\ ppc' = "done"
                  /\ parsed' = after
                  /\ UNCHANGED pubvars
             ELSE IF saved.raised
             THEN /\ invoked' = invoked \o <<"generate_enhancement_suggestions",
                                            "generate_from_request",
                                            "save_configurations_as_files">>
                  /\ result' = Failed(Raised("Exception",
                                             "save_configurations_as_files"))
                  /\ ppc' = "done"
                  /\ parsed' = after
                  /\ UNCHANGED pubvars
             ELSE IF ~auto_create_pr
             THEN /\ invoked' = invoked \o <<"generate_enhancement_suggestions",
                                            "generate_from_request",
                                            "save_configurations_as_files">>
                  /\ result' = Success(sugg, saved.files)
                  /\ ppc' = "done"
                  /\ parsed' = after
                  /\ UNCHANGED pubvars
             ELSE /\ invoked' = invoked \o <<"generate_enhancement_suggestions",
                                            "generate_from_request",
                                            "save_configurations_as_files",
                                            "create_automated_pr">>
                  /\ result' = Success(sugg, saved.files)
                  /\ ppc' = "create_pr"
                  /\ parsed' = after
                  /\ branch_name' = [branch_name EXCEPT ![TheRun] = b]
                  /\ files' = [files EXCEPT ![TheRun] = Len(saved.files)]
                  /\ pc' = [pc EXCEPT ![TheRun] = "create_branch"]
                  /\ UNCHANGED <<branches, branch_files, pulls, idx, commits,
                                 ops, exc, outcome>>
    /\ UNCHANGED <<webvars, genvars, llm_model, user_input, asked, enum_shared,
                   auto_create_pr, issues>>

\* _create_pr returns or raises (lines 249-265) and process_request returns
\* (lines 148-160): result is the dict built at line 136 until then.
process_request_return ==
    /\ ppc = "create_pr"
    /\ Terminal(TheRun)
    /\ LET o == outcome[TheRun]
       IN  result' = IF create_pr_result(o) = NoPrInfo THEN Failed(o.error)
                     ELSE WithPrInfo(result, create_pr_result(o))
    /\ ppc' = "done"
    /\ UNCHANGED <<webvars, genvars, pubvars, resvars, enum_shared, auto_create_pr, issues,
                   invoked>>

\* ================================================================ Web app

\* uuid.uuid4() of submit_request (line 120).
WorkflowIds == {"w1", "w2"}

\* A message or an error text: the fixed text, or str() of an exception.
Text(text, e) == [text |-> text, error |-> e]

\* An entry of workflow_status: result and error are keys that an entry
\* need not have.
Entry(status, stage, message, res, error) ==
    [status |-> status, stage |-> stage, message |-> message,
     result |-> res, error |-> error]

\* Lines 123-131.
QueuedEntry ==
    Entry("queued", "queued", Text("Workflow queued for processing", NoExc),
          <<>>, <<>>)

\* dict.update (lines 38, 80, 92): the keys given are set in one step.
update_running(entry) ==
    [entry EXCEPT !.status = "running", !.stage = "initializing",
                  !.message = Text("Initializing workflow...", NoExc)]

\* Lines 76-78.
final_status(res) == IF res.status = "success" THEN "completed" ELSE "error"

final_message(res) ==
    IF final_status(res) = "completed"
    THEN IF "message" \in res.keys THEN Text("result.message", NoExc)
         ELSE Text("Workflow completed successfully", NoExc)
    ELSE IF "error" \in res.keys THEN Text("result.error", res.error)
         ELSE Text("Workflow failed", NoExc)

\* Lines 60-74: the dict made of a successful result; pr_url and branch are
\* set when the result has a pr_info whose pull_request is truthy.
formatted_result(res) ==
    IF res.status # "success"
    THEN [keys |-> {}, pr_url |-> "none", branch |-> "none"]
    ELSE LET has_pr == /\ "pr_info" \in res.keys
                       /\ "pull_request" \in res.pr_info.keys
                       /\ res.pr_info.pull_request # "none"
         IN  [keys |-> (IF has_pr THEN {"pr_url", "branch"} ELSE {})
                       \cup ({"files", "request"} \cap res.keys),
              pr_url |-> IF has_pr THEN res.pr_info.pull_request ELSE "none",
              branch |-> IF has_pr THEN res.pr_info.branch ELSE "none"]

\* Line 84: formatted_result if formatted_result else result.
stored_result(res) ==
    IF formatted_result(res).keys # {} THEN formatted_result(res) ELSE res

\* Lines 80-86.
update_final(entry, res) ==
    [entry EXCEPT !.status = final_status(res), !.stage = "completed",
                  !.message = final_message(res),
                  !.result = <<stored_result(res)>>]

\* Line 89: result.get('error', str(result)).
result_error(res) ==
    IF "error" \in res.keys THEN Text("result.error", res.error)
    ELSE Text("str(result)", NoExc)

\* Mutant: without the handler of lines 91-98 the thread ends and the entry
\* is left as it was.
update_failed_missing(entry, e) == entry

\* Lines 91-98.
update_failed(entry, e) ==
    [entry EXCEPT !.status = "error", !.stage = "error",
                  !.message = Text("Workflow failed: ", e),
                  !.error = <<Text("", e)>>]

\* What process_request can return to run_workflow (agentic_workflow.py,
\* lines 52, 88, 109, 136-160).
PipelineResults ==
    {ParsingFailed,
     ValidationFailed(<<"Resource name must be at least 3 characters long">>),
     Failed(Raised("Exception", "generate_from_request")),
     Failed(RequestException("create_branch")),
     WithPrInfo(Success(<<>>, <<>>), PrError(GitHubAPIError("create_branch"))),
     WithPrInfo(Success(<<>>, <<>>),
                [PrResult(NoOutcome) EXCEPT !.branch = "b1",
                                            !.pull_request = "b1"])}

\* GitHubIntegration.__init__ verifies the access (github_integration.py,
\* line 45), so the constructor of line 46 can raise.
ConstructorErrors ==
    {GitHubAPIError("verify_access"), RequestException("verify_access")}

WebIdle ==
    /\ workflow_status = [w \in WorkflowIds |-> <<>>]
    /\ wpc = [w \in WorkflowIds |-> "none"]
    /\ wresult = [w \in WorkflowIds |-> NoResult]
    /\ stage_log = [w \in WorkflowIds |-> <<>>]
    /\ polled = <<>>

\* submit_request (lines 119-152) of an accepted prompt: the entry is made
\* and the thread is started.
submit_request(w) ==
    /\ wpc[w] = "none"
    /\ workflow_status' = [workflow_status EXCEPT ![w] = <<QueuedEntry>>]
    /\ stage_log' = [stage_log EXCEPT ![w] = <<"queued">>]
    /\ wpc' = [wpc EXCEPT ![w] = "queued"]
    /\ UNCHANGED <<wresult, polled>>

\* run_workflow_async, lines 38-43.
run_workflow_async_start(w) ==
    /\ wpc[w] = "queued"
    /\ workflow_status' =
         [workflow_status EXCEPT ![w] = <<update_running(@[1])>>]
    /\ stage_log' = [stage_log EXCEPT ![w] = Append(@, "initializing")]
    /\ wpc' = [wpc EXCEPT ![w] = "running"]
    /\ UNCHANGED <<wresult, polled>>

\* Lines 46-55: the workflow is made and run_workflow returns the result of
\* process_request; _update_workflow_status (agentic_workflow.py, lines
\* 54-66) is a placeholder that nothing calls, so the entry is not written.
run_workflow_async_run(w) ==
    /\ wpc[w] = "running"
    /\ \E res \in PipelineResults :
         wresult' = [wresult EXCEPT ![w] = res]
    /\ wpc' = [wpc EXCEPT ![w] = "ran"]
    /\ UNCHANGED <<workflow_status, stage_log, polled>>

\* Lines 46-52 raise: the handler of lines 91-98.
run_workflow_async_except(w) ==
    /\ wpc[w] = "running"
    /\ \E e \in ConstructorErrors :
         workflow_status' =
           [workflow_status EXCEPT ![w] = <<update_failed(@[1], e)>>]
    /\ stage_log' = [stage_log EXCEPT ![w] = Append(@, "error")]
    /\ wpc' = [wpc EXCEPT ![w] = "done"]
    /\ UNCHANGED <<wresult, polled>>

\* Lines 60-86: the final update.
run_workflow_async_final(w) ==
    /\ wpc[w] = "ran"
    /\ workflow_status' =
         [workflow_status EXCEPT ![w] = <<update_final(@[1], wresult[w])>>]
    /\ stage_log' = [stage_log EXCEPT ![w] = Append(@, "completed")]
    /\ wpc' = [wpc EXCEPT ![w] =
                 IF final_status(wresult[w]) = "error" THEN "set_error"
                 ELSE "done"]
    /\ UNCHANGED <<wresult, polled>>

\* Lines 88-89: the error detail is set by a statement of its own.
run_workflow_async_error(w) ==
    /\ wpc[w] = "set_error"
    /\ workflow_status' =
         [workflow_status EXCEPT ![w] =
            <<[@[1] EXCEPT !.error = <<result_error(wresult[w])>>]>>]
    /\ wpc' = [wpc EXCEPT ![w] = "done"]
    /\ UNCHANGED <<wresult, stage_log, polled>>

\* get_workflow_status (lines 154-185): 404, or a copy of the entry made in
\* one step (dict.copy, line 160).
get_workflow_status(w) ==
    /\ polled' = <<[id |-> w, entry |-> workflow_status[w]]>>
    /\ UNCHANGED <<workflow_status, wpc, wresult, stage_log>>

\* ========================================================== specifications

RemoteInit ==
    /\ branches \in SUBSET BranchNames
    /\ branch_files = [b \in BranchNames |-> {}]
    /\ pulls = {}
    /\ pc = [r \in Runs |-> "idle"]
    /\ branch_name = [r \in Runs |-> "none"]
    /\ files = [r \in Runs |-> 0]
    /\ idx = [r \in Runs |-> 1]
    /\ commits = [r \in Runs |-> <<>>]
    /\ ops = [r \in Runs |-> <<>>]
    /\ exc = [r \in Runs |-> NoExc]
    /\ outcome = [r \in Runs |-> NoOutcome]

AgentInit ==
    /\ llm_model \in AgentModels
    /\ user_input = <<>>
    /\ asked = <<>>
    /\ parsed = NoParse

\* No caller holds a request for the generator.
GeneratorIdle ==
    /\ resource_request = <<>>
    /\ validated = <<>>
    /\ generated = <<>>
    /\ regenerated = <<>>
    /\ clock = 0
    /\ called_at = <<>>

WorkflowInit ==
    /\ enum_shared \in BOOLEAN
    /\ ppc = "idle"
    /\ auto_create_pr = FALSE
    /\ issues = <<>>
    /\ invoked = <<>>
    /\ result = NoResult

\* ------------------------------------------------------- the publish protocol

\* One caller of create_automated_pr on a remote that may hold branches.
PublishInit ==
    /\ RemoteInit
    /\ AgentInit /\ llm_model = "gpt-5"
    /\ WorkflowInit /\ enum_shared
    /\ GeneratorIdle
    /\ WebIdle

PublishNext ==
    \E r \in Solo :
        \/ StartPublish(r) /\ UNCHANGED <<resvars, procvars, genvars, webvars>>
        \/ create_branch(r) /\ UNCHANGED <<resvars, procvars, genvars, webvars>>
        \/ commit_file(r) /\ UNCHANGED <<resvars, procvars, genvars, webvars>>
        \/ commit_files_return(r) /\ UNCHANGED <<resvars, procvars, genvars, webvars>>
        \/ create_pull_request(r) /\ UNCHANGED <<resvars, procvars, genvars, webvars>>
        \/ delete_branch(r) /\ UNCHANGED <<resvars, procvars, genvars, webvars>>

SpecPublish == PublishInit /\ [][PublishNext]_vars

\* --------------------------------------------------------------- the resolver

\* One call of parse_request on an agent; the agent keeps nothing between
\* calls.
ParseRequest ==
    /\ parsed = NoParse
    /\ \E text \in ResolverInputs, answers \in Scripts :
         /\ user_input' = text
         /\ asked' = answers
         /\ parsed' = parse_request(llm_model, text, answers)
    /\ UNCHANGED <<webvars, genvars, pubvars, procvars, llm_model>>

ResolveInit ==
    /\ RemoteInit /\ branches = {}
    /\ AgentInit
    /\ WorkflowInit /\ enum_shared
    /\ GeneratorIdle
    /\ WebIdle

ResolveNext == ParseRequest

SpecResolve == ResolveInit /\ [][ResolveNext]_vars

\* parse_request runs on its caller's thread: once called it is executed, and
\* every call of the collaborator it makes returns or raises. This is weak
\* fairness of ParseRequest, WF_vars(ParseRequest), with the enabling
\* condition of the action written out: the call is possible exactly while
\* parsed = NoParse.
SpecResolveFair ==
    SpecResolve /\ ([]<>(parsed # NoParse) \/ []<><<ParseRequest>>_vars)

\* --------------------------------------------------------------- the pipeline

\* One call of process_request on a workflow.
ProcessInit ==
    /\ RemoteInit
    /\ AgentInit /\ llm_model \in {"gpt-5", "gpt-4"}
    /\ WorkflowInit
    /\ GeneratorIdle
    /\ WebIdle

ProcessNext ==
    \/ process_request_parse
    \/ process_request_validate
    \/ process_request_prepare
    \/ ppc = "create_pr" /\ create_branch(TheRun)
          /\ UNCHANGED <<resvars, procvars, genvars, webvars>>
    \/ ppc = "create_pr" /\ commit_file(TheRun)
          /\ UNCHANGED <<resvars, procvars, genvars, webvars>>
    \/ ppc = "create_pr" /\ commit_files_return(TheRun)
          /\ UNCHANGED <<resvars, procvars, genvars, webvars>>
    \/ ppc = "create_pr" /\ create_pull_request(TheRun)
          /\ UNCHANGED <<resvars, procvars, genvars, webvars>>
    \/ ppc = "create_pr" /\ delete_branch(TheRun)
          /\ UNCHANGED <<resvars, procvars, genvars, webvars>>
    \/ process_request_return

SpecProcess == ProcessInit /\ [][ProcessNext]_vars


\* -------------------------------------------------------------- the generator

\* The largest node count and the largest allocated storage of the requests.
MaxNodeCount == 21
MaxAllocatedStorage == 21

RequestNames ==
    {PyStr(<<"a", "n", "a", "l", "y", "t", "i", "c", "s">>), PyStr(<<"a", "b">>), PyStr(<<"d", "b", "1">>),
     PyStr(<<"D", "a", "t", "a", "_", "L", "a", "k", "e">>), None}

\* The longest bucket name of the requests.
MaxNameLen == 64

LongName(k) == [i \in 1..k |-> IF i = 2 THEN "1" ELSE "a"]

BucketNames ==
    {PyStr(<<>>), PyStr(<<"a", "b", "c">>), PyStr(<<"a", "-", "b">>), PyStr(<<"m", "y", ".", "b", "u", "c", "k", "e", "t">>),
     PyStr(<<"l", "o", "g", "s", "-", "2", "0", "2", "4">>), PyStr(<<"L", "o", "g", "s">>), PyStr(<<"a", " ", "b">>),
     PyStr(<<"-", "-", "-">>), PyStr(<<"a", "_", "b">>)}
    \cup {PyStr(LongName(k)) : k \in (MaxNameLen - 2)..MaxNameLen}

RequestEnvironments ==
    {PyStr(s_development), PyStr(s_staging), PyStr(s_production)}

NodeCounts == {None} \cup {PyInt(k) : k \in (0 - 1)..MaxNodeCount}

KubernetesVersions == {None, PyStr(<<"1", ".", "2", "8">>), PyStr(<<"l", "a", "t", "e", "s", "t">>)}

AllocatedStorages ==
    {None} \cup {PyInt(k) : k \in (0 - 1)..MaxAllocatedStorage}

Engines ==
    {None, PyStr(<<>>), PyStr(<<"m", "y", "s", "q", "l">>), PyStr(<<"p", "o", "s", "t", "g", "r", "e", "s">>),
     PyStr(<<"m", "a", "r", "i", "a", "d", "b">>), PyStr(<<"o", "r", "a", "c", "l", "e">>)}

\* The values of versioning and encryption: absent, true, false.
Flags == {None, PyBool(TRUE), PyBool(FALSE)}

\* The tags of a request: none, an empty dict, or items.
RequestTags ==
    {<<>>, <<PyDict(<<>>)>>,
     <<PyDict(<<<<<<"c", "o", "s", "t", "_", "c", "e", "n", "t", "e", "r">>, PyStr(<<"x">>)>>>>)>>,
     <<PyDict(<<<<<<"e", "n", "v", "i", "r", "o", "n", "m", "e", "n", "t">>, PyStr(<<"q", "a">>)>>>>)>>,
     <<PyDict(<<<<<<"o", "w", "n", "e", "r">>, PyStr(<<"d", "a", "t", "a">>)>>,
               <<<<"c", "o", "s", "t", "_", "c", "e", "n", "t", "e", "r">>, PyStr(<<"x">>)>>>>)>>,
     <<PyDict(<<<<<<"c", "r", "e", "a", "t", "e", "d", "_", "b", "y">>, PyStr(<<"m", "e">>)>>,
               <<<<"C", "r", "e", "a", "t", "e", "d", "A", "t">>, PyStr(<<"n", "e", "v", "e", "r">>)>>>>)>>,
     <<PyDict(<<<<<<"e", "n", "g", "i", "n", "e">>, PyStr(<<"d", "b", "2">>)>>,
               <<<<"E", "N", "G", "I", "N", "E">>, PyStr(<<"d", "b", "3">>)>>>>)>>}

\* ResourceRequest objects as a caller of the generator constructs them.
Requests ==
    {[ResourceRequest("EKS_CLUSTER", nm) EXCEPT
        !.environment = env, !.node_count = nc, !.kubernetes_version = kv] :
       nm \in RequestNames, env \in RequestEnvironments,
       nc \in NodeCounts, kv \in KubernetesVersions}
    \cup {[ResourceRequest("RDS_DATABASE", nm) EXCEPT
        !.environment = env, !.allocated_storage = st, !.engine = en] :
       nm \in RequestNames, env \in RequestEnvironments,
       st \in AllocatedStorages, en \in Engines}
    \cup {[ResourceRequest("S3_BUCKET", nm) EXCEPT !.environment = env] :
       nm \in RequestNames \cup BucketNames, env \in RequestEnvironments}
    \cup {[ResourceRequest("S3_BUCKET", nm) EXCEPT
              !.versioning = v, !.encryption = e] :
       nm \in RequestNames, v \in Flags, e \in Flags}
    \cup {[ResourceRequest("VPC", nm) EXCEPT !.environment = env] :
       nm \in RequestNames, env \in RequestEnvironments}
    \cup {[ResourceRequest(ty, PyStr(<<"a", "n", "a", "l", "y", "t", "i", "c", "s">>)) EXCEPT
        !.environment = env, !.tags = tg] :
       ty \in ResourceTypes, env \in RequestEnvironments, tg \in RequestTags}

\* The last instant of the clock.
MaxClock == 1

\* A caller holds one request and the generator's own ResourceType, and
\* calls validate_request once and generate_from_request twice, in any
\* order, while the clock runs.
GenerateInit ==
    /\ RemoteInit /\ branches = {}
    /\ AgentInit /\ llm_model = "gpt-5"
    /\ WorkflowInit /\ enum_shared
    /\ resource_request \in {<<r>> : r \in Requests}
    /\ validated = <<>>
    /\ generated = <<>>
    /\ regenerated = <<>>
    /\ clock = 0
    /\ called_at = <<>>
    /\ WebIdle

ValidateRequest ==
    /\ resource_request # <<>>
    /\ validated = <<>>
    /\ validated' = <<validate_request(resource_request[1], enum_shared)>>
    /\ UNCHANGED <<webvars, pubvars, resvars, procvars, resource_request, generated,
                   regenerated, clock, called_at>>

GenerateFromRequest ==
    /\ resource_request # <<>>
    /\ generated = <<>>
    /\ generated' = <<generate_documents(resource_request[1], enum_shared,
                                         datetime_now)>>
    /\ called_at' = Append(called_at, clock)
    /\ UNCHANGED <<webvars, pubvars, resvars, procvars, resource_request, validated,
                   regenerated, clock>>

GenerateAgain ==
    /\ generated # <<>>
    /\ regenerated = <<>>
    /\ regenerated' = <<generate_documents(resource_request[1], enum_shared,
                                           datetime_now)>>
    /\ called_at' = Append(called_at, clock)
    /\ UNCHANGED <<webvars, pubvars, resvars, procvars, resource_request, validated,
                   generated, clock>>

Tick ==
    /\ resource_request # <<>>
    /\ clock < MaxClock
    /\ clock' = clock + 1
    /\ UNCHANGED <<webvars, pubvars, resvars, procvars, resource_request, validated,
                   generated, regenerated, called_at>>

GenerateNext ==
    \/ ValidateRequest
    \/ GenerateFromRequest
    \/ GenerateAgain
    \/ Tick

SpecGenerate == GenerateInit /\ [][GenerateNext]_vars


\* ------------------------------------------------------------------ the web app

\* Two submitted prompts, their runs and a poller.
WebInit ==
    /\ RemoteInit /\ branches = {}
    /\ AgentInit /\ llm_model = "gpt-5"
    /\ WorkflowInit /\ enum_shared
    /\ GeneratorIdle
    /\ WebIdle

WebNext ==
    \E w \in WorkflowIds :
        \/ submit_request(w)
             /\ UNCHANGED <<pubvars, resvars, procvars, genvars>>
        \/ run_workflow_async_start(w)
             /\ UNCHANGED <<pubvars, resvars, procvars, genvars>>
        \/ run_workflow_async_run(w)
             /\ UNCHANGED <<pubvars, resvars, procvars, genvars>>
        \/ run_workflow_async_except(w)
             /\ UNCHANGED <<pubvars, resvars, procvars, genvars>>
        \/ run_workflow_async_final(w)
             /\ UNCHANGED <<pubvars, resvars, procvars, genvars>>
        \/ run_workflow_async_error(w)
             /\ UNCHANGED <<pubvars, resvars, procvars, genvars>>
        \/ get_workflow_status(w)
             /\ UNCHANGED <<pubvars, resvars, procvars, genvars>>

SpecWeb == WebInit /\ [][WebNext]_vars



\* ------------------------------------------------------- two publish runs

\* Largest number of files handed to each of two concurrent publish runs.
MaxRaceFiles == 2

\* Two callers of create_automated_pr on the same remote repository, their
\* HTTP calls interleaved in any order.
RaceInit ==
    /\ RemoteInit
    /\ AgentInit /\ llm_model = "gpt-5"
    /\ WorkflowInit /\ enum_shared
    /\ GeneratorIdle
    /\ WebIdle

\* create_automated_pr, lines 253-255, for a caller with at most
\* MaxRaceFiles files.
StartRace(r) ==
    /\ pc[r] = "idle"
    /\ \E b \in BranchNames, n \in 0..MaxRaceFiles :
         /\ branch_name' = [branch_name EXCEPT ![r] = b]
         /\ files' = [files EXCEPT ![r] = n]
    /\ pc' = [pc EXCEPT ![r] = "create_branch"]
    /\ UNCHANGED <<branches, branch_files, pulls, idx, commits, ops, exc,
                   outcome>>

RaceNext ==
    \E r \in Runs :
        \/ StartRace(r) /\ UNCHANGED <<resvars, procvars, genvars, webvars>>
        \/ create_branch(r) /\ UNCHANGED <<resvars, procvars, genvars, webvars>>
        \/ commit_file(r) /\ UNCHANGED <<resvars, procvars, genvars, webvars>>
        \/ commit_files_return(r) /\ UNCHANGED <<resvars, procvars, genvars, webvars>>
        \/ create_pull_request(r) /\ UNCHANGED <<resvars, procvars, genvars, webvars>>
        \/ delete_branch(r) /\ UNCHANGED <<resvars, procvars, genvars, webvars>>

SpecRace == RaceInit /\ [][RaceNext]_vars


\* Every thread started by submit_request runs: each of its steps is taken
\* once it is possible, the calls of process_request returning or raising.
ThreadRuns(w) ==
    /\ WF_webvars(run_workflow_async_start(w))
    /\ WF_webvars(run_workflow_async_run(w) \/ run_workflow_async_except(w))
    /\ WF_webvars(run_workflow_async_final(w))
    /\ WF_webvars(run_workflow_async_error(w))

SpecWebFair == SpecWeb /\ \A w \in WorkflowIds : ThreadRuns(w)

\* ================================================================ claims
\* ------------------------------------------------------------- Publisher

\* The files whose commit the hosting service accepted, from the log.
Accepted(r) ==
    LET ok == SelectSeq(OpsOf(r, "commit"), LAMBDA o : o.status \in {200, 201})
    IN  [k \in 1..Len(ok) |-> ok[k].arg]

\* create_branch returned normally.
BranchStepPassed(r) == RefStatus(r) \in {201, 422}

\* commit_files ran to its end.
LoopDone(r) ==
    BranchStepPassed(r) /\ pc[r] \notin {"idle", "create_branch", "commit_files"}

LastOp(r) == ops[r][Len(ops[r])]

\* C1 (as stated): after any publish run, either the run returned with every
\* input file committed and an open change request, or the branch the run
\* named does not exist in the remote repository.
C1_FullBranchOrNoBranch ==
    \A r \in Runs :
        Terminal(r) =>
            \/ /\ outcome[r].kind = "returned"
               /\ Len(commits[r]) = files[r]
               /\ [head |-> branch_name[r], run |-> r] \in pulls
            \/ branch_name[r] \notin branches

\* C1 (amended): after any publish run, either the run returned with an open
\* change request and at least one input file committed, or it raised after
\* exactly one branch-deletion attempt and opened no change request; the
\* branch is then absent whenever that deletion was answered 204 or 404.
C1_ReturnedOrRollbackAttempted ==
    \A r \in Runs :
        Terminal(r) =>
            \/ /\ outcome[r].kind = "returned"
               /\ commits[r] # <<>>
               /\ Accepted(r) = commits[r]
               /\ [head |-> branch_name[r], run |-> r] \in pulls
            \/ /\ outcome[r].kind = "raised"
               /\ Count(r, "delete_branch") = 1
               /\ [head |-> branch_name[r], run |-> r] \notin pulls
               /\ DelStatus(r) \in {204, 404} => branch_name[r] \notin branches

\* C1 witness: a run returned with only part of its files committed.
C1_Witness ==
    \E r \in Runs :
        /\ pc[r] = "returned"
        /\ files[r] = 2
        /\ Len(commits[r]) = 1

\* C1 witness of the other case: a run raised, its cleanup was refused, and
\* the branch it created is still there.
C1_WitnessBranchLeft ==
    \E r \in Runs :
        /\ pc[r] = "raised"
        /\ RefStatus(r) = 201
        /\ DelStatus(r) = 403
        /\ branch_name[r] \in branches

\* C4: when branch creation succeeds and no file is committed, publish raises
\* GitHubAPIError, never calls change-request creation and makes exactly one
\* branch-deletion call.
C4_ZeroCommitsRollsBack ==
    \A r \in Runs :
        (Terminal(r) /\ BranchStepPassed(r) /\ Accepted(r) = <<>>) =>
            /\ outcome[r].kind = "raised"
            /\ outcome[r].error = GitHubAPIError("commit_files")
            /\ Count(r, "create_pull_request") = 0
            /\ Count(r, "delete_branch") = 1

\* C4 witness: the branch was created, both commits failed, the run is over.
C4_Witness ==
    \E r \in Runs :
        /\ Terminal(r)
        /\ RefStatus(r) = 201
        /\ files[r] = 2
        /\ Count(r, "commit") = 2
        /\ Accepted(r) = <<>>

\* C5: when change-request creation fails after at least one commit, the
\* branch deletion is attempted before the error reaches the caller, and the
\* caller gets no result.
C5_PullFailureRollsBackFirst ==
    \A r \in Runs :
        (Count(r, "create_pull_request") = 1
         /\ OpsOf(r, "create_pull_request")[1].status # 201) =>
            /\ outcome[r].kind # "returned"
            /\ outcome[r].branch = "none"
            /\ outcome[r].pull_request = "none"
            /\ outcome[r].kind = "raised" =>
                  /\ LastOp(r).op = "delete_branch"
                  /\ ops[r][Len(ops[r]) - 1].op = "create_pull_request"
            /\ Terminal(r) => outcome[r].kind = "raised"

\* C5 witness: the change request was refused after a commit and the run is
\* over.
C5_Witness ==
    \E r \in Runs :
        /\ pc[r] = "raised"
        /\ commits[r] # <<>>
        /\ Count(r, "create_pull_request") = 1
        /\ OpsOf(r, "create_pull_request")[1].status = 422

\* The step whose failure made the run fail, read from the log.
PrimaryFailure(r) ==
    IF ~BranchStepPassed(r) THEN "create_branch"
    ELSE IF Accepted(r) = <<>> THEN "commit_files"
    ELSE "create_pull_request"

\* C6: the error publish propagates is the primary failure (branch, zero
\* commits or change request); a deletion that fails or raises neither
\* replaces it nor turns the run into a success.
C6_CleanupNeverMasksError ==
    \A r \in Runs :
        Count(r, "delete_branch") > 0 =>
            /\ outcome[r].kind = "raised"
            /\ outcome[r].error.type \in {"GitHubAPIError", "RequestException"}
            /\ outcome[r].error.at = PrimaryFailure(r)
            /\ outcome[r].error = exc[r]

\* C6 witness: the cleanup's DELETE raised or was refused.
C6_Witness ==
    \E r \in Runs :
        /\ pc[r] = "raised"
        /\ DelStatus(r) = Transport
        /\ RefStatus(r) = 201

\* C7: whatever subset of the files fails, every file is attempted once in
\* input order, the commit records are exactly the accepted files in input
\* order, and the failures become an error only when no commit succeeded.
C7_PartialCommitTolerance ==
    \A r \in Runs :
        LET attempts == OpsOf(r, "commit")
        IN  /\ \A k \in 1..Len(attempts) : attempts[k].arg = k
            /\ commits[r] = Accepted(r)
            /\ LoopDone(r) => Len(attempts) = files[r]
            /\ (LoopDone(r) /\ Accepted(r) # <<>>) =>
                  /\ exc[r].at # "commit_files"
                  /\ Count(r, "create_pull_request") = 0 =>
                        pc[r] = "create_pull_request"
            /\ (LoopDone(r) /\ Accepted(r) = <<>>) =>
                  exc[r] = GitHubAPIError("commit_files")
            /\ outcome[r].kind = "returned" => outcome[r].commits = Accepted(r)

\* C7 witness: of three files the second failed, the run returned the other
\* two.
C7_Witness ==
    \E r \in Runs :
        /\ pc[r] = "returned"
        /\ files[r] = 3
        /\ outcome[r].commits = <<1, 3>>

\* C8 (as stated): a 409 or a 422 answer to the creation of the ref is taken
\* as "branch already exists" and the files are committed.
C8_Conflict409Or422Proceeds ==
    \A r \in Runs :
        RefStatus(r) \in {409, 422} =>
            /\ exc[r].at # "create_branch"
            /\ Terminal(r) => Count(r, "commit") = files[r]

\* C8 (amended): a 422 answer to the creation of the ref is taken as "branch
\* already exists" and the files are committed; a 409 answer makes
\* create_branch raise GitHubAPIError and no file is committed.
C8_Only422Proceeds ==
    \A r \in Runs :
        /\ RefStatus(r) = 422 =>
              /\ exc[r].at # "create_branch"
              /\ pc[r] # "create_branch"
              /\ Terminal(r) => Count(r, "commit") = files[r]
        /\ RefStatus(r) = 409 =>
              /\ exc[r] = GitHubAPIError("create_branch")
              /\ Count(r, "commit") = 0
              /\ Terminal(r) => outcome[r].kind = "raised"

\* C8 witness: the ref creation was answered 422 and a file was committed on
\* the branch.
C8_Witness ==
    \E r \in Runs :
        /\ RefStatus(r) = 422
        /\ commits[r] # <<>>
        /\ Terminal(r)

\* ----------------------------------------------------------- Orchestrator

Invoked(component) == \E k \in 1..Len(invoked) : invoked[k] = component

C3_IssuesStopPipeline ==
    (ppc \notin {"idle", "validate"} /\ issues # <<>>) =>
        /\ ppc = "done"
        /\ result = ValidationFailed(issues)
        /\ ~Invoked("generate_from_request")
        /\ ~Invoked("save_configurations_as_files")
        /\ ~Invoked("create_automated_pr")
        /\ pc[TheRun] = "idle"
        /\ ops[TheRun] = <<>>

\* C3 witness: a request was parsed, validate_request returned two issues and
\* process_request returned them.
C3_Witness ==
    /\ ppc = "done"
    /\ invoked = <<"parse_request", "validate_request">>
    /\ Len(issues) = 2
    /\ result.status = "error"
    /\ result.issues = issues

\* --------------------------------------------------------------- Resolver

\* An answer without content, and one whose content parse_request makes a
\* request of.
EmptyAnswer(a) == a.kind = "content" /\ (a.none \/ Strip(a.text) = <<>>)

ValidAnswer(a) ==
    /\ a.kind = "content" /\ ~a.none
    /\ parse_content(Strip(a.text), <<>>, <<>>).kind = "request"
    /\ ~parse_content(Strip(a.text), <<>>, <<>>).fallback

ThreeAttempts(model) ==
    <<Call(model, 512, "json_schema"), Call(model, 1024, "json_schema"),
      Call(model, 1024, "json_object")>>

\* C9 (as stated): on the HTTP path, when the collaborator answers the first
\* two attempts without content and the third with valid JSON, parse_request
\* returns the request built from the third answer after exactly the three
\* attempts (512 and 1024 tokens with the schema, 1024 with json_object),
\* without the gpt-3.5-turbo agent and without _fallback_parse.
C9_ThirdAttemptAnswerIsUsed ==
    (/\ parsed # NoParse
     /\ UsesHttpPath(llm_model)
     /\ EmptyAnswer(asked[1])
     /\ EmptyAnswer(asked[2])
     /\ ValidAnswer(asked[3])) =>
        parsed = parse_content(Strip(asked[3].text), user_input,
                               ThreeAttempts(llm_model))

\* C10 (as stated): when a call of the collaborator is answered with
\* non-empty content that is not valid JSON, parse_request raises
\* LLMParsingError and does not invoke _fallback_parse.
C10_InvalidJsonIsParsingError ==
    \A k \in 1..Len(parsed.calls) :
        (/\ asked[k].kind = "content" /\ ~asked[k].none
         /\ Strip(asked[k].text) # <<>>
         /\ ~json_loads(Strip(asked[k].text)).ok) =>
            parsed.kind = "LLMParsingError" /\ ~parsed.fallback

\* C10 (amended): when a call of the collaborator is answered with non-empty
\* content that is not valid JSON once a surrounding markdown fence is
\* removed, parse_request raises LLMParsingError and does not invoke
\* _fallback_parse.
C10_InvalidJsonInsideFencesIsParsingError ==
    \A k \in 1..Len(parsed.calls) :
        (/\ asked[k].kind = "content" /\ ~asked[k].none
         /\ Strip(asked[k].text) # <<>>
         /\ ~json_loads(Unwrap(Strip(asked[k].text))).ok) =>
            parsed.kind = "LLMParsingError" /\ ~parsed.fallback

\* C10 witness: the one call was answered with a sentence before the JSON
\* object and parse_request raised for invalid JSON.
C10_Witness ==
    /\ Len(parsed.calls) = 1
    /\ asked[1] = Content(c_prose)
    /\ parsed.kind = "LLMParsingError"
    /\ parsed.reason = "invalid_json"
    /\ ~parsed.fallback


\* The value json.loads makes of the content of an answer.
AnswerJson(a) == json_loads(Unwrap(Strip(a.text)))

\* A call of the collaborator raised, or its response carried no content at
\* all.
CallFailed ==
    \E k \in 1..Len(parsed.calls) : asked[k].kind = "raise" \/ asked[k].none

\* The agent cannot authenticate: the HTTP path has no key to send.
ConfigError == UsesHttpPath(llm_model) /\ ~HasApiKeyAttr

\* The three attempts and the gpt-3.5-turbo agent were all answered without
\* content.
AllTiersEmpty ==
    /\ Len(parsed.calls) = MaxCalls
    /\ \A k \in 1..MaxCalls : EmptyAnswer(asked[k])

\* C11 (as stated): parse_request invokes _fallback_parse if and only if a
\* collaborator call failed with a transport or configuration error, or
\* every tier including the gpt-3.5-turbo agent returned empty content;
\* malformed content and missing or invalid fields never reach it.
C11_FallbackOnlyOnTransportOrExhaustion ==
    parsed # NoParse =>
        (parsed.fallback <=> (CallFailed \/ ConfigError \/ AllTiersEmpty))

\* An answer whose JSON object carries a resource_type that is no value of
\* ResourceType.
UnknownTypeAnswer(a) ==
    /\ a.kind = "content" /\ ~a.none
    /\ AnswerJson(a).ok /\ AnswerJson(a).dict
    /\ <<"r", "e", "s", "o", "u", "r", "c", "e", "_", "t", "y", "p", "e">> \in DOMAIN AnswerJson(a).obj
    /\ ResourceTypeOf(AnswerJson(a).obj[<<"r", "e", "s", "o", "u", "r", "c", "e", "_", "t", "y", "p", "e">>]) = ""

\* C12 (as stated): when the parsed JSON carries a resource_type outside
\* eks_cluster, s3_bucket, rds_database and vpc, parse_request raises
\* LLMParsingError and returns no request.
C12_UnknownTypeIsParsingError ==
    \A k \in 1..Len(parsed.calls) :
        UnknownTypeAnswer(asked[k]) =>
            parsed.kind = "LLMParsingError" /\ parsed.request = <<>>

EnvironmentValues == {s_development, s_staging, s_production}

\* C13 (as stated): every request parse_request returns has a resource_type
\* among the four members, a non-empty string as name, a region and an
\* environment among development, staging and production; otherwise
\* parse_request raises LLMParsingError and nothing else.
C13_ReturnedRequestIsTyped ==
    parsed # NoParse =>
        \/ /\ parsed.kind = "request"
           /\ parsed.request[1].resource_type \in ResourceTypes
           /\ parsed.request[1].name.t = "str"
           /\ parsed.request[1].name.v # <<>>
           /\ parsed.request[1].region.t = "str"
           /\ parsed.request[1].region.v # <<>>
           /\ parsed.request[1].environment.t = "str"
           /\ parsed.request[1].environment.v \in EnvironmentValues
        \/ parsed.kind = "LLMParsingError" /\ parsed.request = <<>>


LastInvoked == invoked[Len(invoked)]

\* The stage of the component whose failure ended process_request.
FailedStage ==
    IF parsed.kind = "LLMParsingError" THEN "resolution"
    ELSE IF LastInvoked = "validate_request" THEN "validation"
    ELSE IF LastInvoked = "create_automated_pr" THEN "publication"
    ELSE "synthesis"

\* The name the claim gives to the stage tag of the code.
StageName(stage) == IF stage = "llm_parsing" THEN "resolution" ELSE stage

\* C14 (as stated): every failure result of process_request carries a stage
\* among resolution, validation, synthesis and publication, and it is the
\* first stage of the pipeline that failed.
C14_FailureCarriesFailedStage ==
    (ppc = "done" /\ result.status = "error") =>
        /\ "stage" \in result.keys
        /\ StageName(result.stage) = FailedStage

\* C15: process_request always ends with one dict whose status is success or
\* error, whatever the Resolver, the Validator, the Synthesizer and the
\* Publisher do: before its end a next step is always possible, and at its
\* end the result stands.
C15_AlwaysOneTaggedResult ==
    IF ppc = "done"
    THEN /\ "status" \in result.keys
         /\ result.status \in {"success", "error"}
         /\ ~ENABLED ProcessNext
    ELSE ENABLED ProcessNext

\* C15 witness: the Publisher failed with a transport error, which _create_pr
\* lets through, and process_request returned an error result.
C15_Witness ==
    /\ ppc = "done"
    /\ LastInvoked = "create_automated_pr"
    /\ outcome[TheRun].error.type = "RequestException"
    /\ result.status = "error"
    /\ result.error = outcome[TheRun].error


\* ------------------------------------------------------------- Synthesizer

\* generate_from_request returned a set of configuration objects.
Generated == generated # <<>> /\ ~generated[1].raised

GeneratedDocuments == generated[1].documents

DocumentIndex == 1..Len(GeneratedDocuments)

\* A provider configuration whose credentials come from the secret
\* aws-secret of the namespace crossplane-system.
IsProviderConfiguration(d) ==
    /\ d.kind = "ProviderConfig"
    /\ d.secretRef # <<>>
    /\ d.secretRef[1].namespace = "crossplane-system"
    /\ d.secretRef[1].name = "aws-secret"

\* C16: for each of the four resource types, the objects that
\* generate_from_request returns include a provider configuration that
\* references the secret crossplane-system/aws-secret.
C16_ProviderConfigurationAlwaysPresent ==
    Generated =>
        \E i \in DocumentIndex :
            IsProviderConfiguration(GeneratedDocuments[i])

\* The name of the object is the request's name, or begins with it and a
\* hyphen.
NamedAfterRequest(d, r) ==
    \/ d.name = r.name
    \/ d.name.t = "str"
       /\ StartsAt(d.name.v, 1, format_value(r.name) \o <<"-">>)

\* C17: in the objects that generate_from_request returns, each object is
\* named after the request, each environment label is the request's
\* environment, and each providerConfigRef names a provider configuration
\* that is among the same objects.
C17_DocumentsAreConsistent ==
    Generated =>
        \A i \in DocumentIndex :
            LET d == GeneratedDocuments[i]
            IN  /\ NamedAfterRequest(d, resource_request[1])
                /\ d.environment \in {<<>>, <<resource_request[1].environment>>}
                /\ d.providerConfigRef # <<>> =>
                      \E j \in DocumentIndex :
                          /\ GeneratedDocuments[j].kind = "ProviderConfig"
                          /\ GeneratedDocuments[j].name = d.providerConfigRef[1]

Roles(g) == {g.documents[i].role : i \in 1..Len(g.documents)}

AddOnRoles == {"aws_load_balancer_controller", "ebs_csi_driver"}

IsClusterRequest ==
    resource_request # <<>> /\ resource_request[1].resource_type = "EKS_CLUSTER"

\* C18: for a cluster request, the roles generated with the environment
\* production are the roles generated for the same request with the
\* environment development and the two add-ons, which are no roles of the
\* development set; and what was generated for the request holds an add-on
\* exactly where its environment is production.
C18_ProductionAddsTwoAddOns ==
    (IsClusterRequest /\ Generated) =>
        LET r == resource_request[1]
            prod == generate_documents(
                        [r EXCEPT !.environment = PyStr(s_production)],
                        enum_shared, called_at[1])
            dev == generate_documents(
                        [r EXCEPT !.environment = PyStr(s_development)],
                        enum_shared, called_at[1])
        IN  /\ ~prod.raised /\ ~dev.raised
            /\ Roles(prod) = Roles(dev) \cup AddOnRoles
            /\ Roles(dev) \cap AddOnRoles = {}
            /\ Len(prod.documents) = Len(dev.documents) + 2
            /\ r.environment = PyStr(s_production) =>
                   generated[1] = prod
            /\ r.environment # PyStr(s_production) =>
                   \A i \in DocumentIndex :
                       /\ GeneratedDocuments[i].role \notin AddOnRoles
                       /\ GeneratedDocuments[i].kind # "Addon"

C18_Witness ==
    /\ IsClusterRequest /\ Generated
    /\ resource_request[1].environment = PyStr(s_production)
    /\ \E i \in DocumentIndex : GeneratedDocuments[i].kind = "Addon"

\* --------------------------------------------------------------- Validator

\* validate_request returned a list of issues.
Validated == validated # <<>> /\ ~validated[1].raised

Reported(issue) ==
    \E i \in 1..Len(validated[1].issues) : validated[1].issues[i] = issue

NodeCountIssue ==
    \/ Reported("Node count must be at least 1")
    \/ Reported("Node count should not exceed 20 without special consideration")

\* C19: for a cluster request with a node count, validate_request reports a
\* node-count issue exactly where the node count is below 1 or above 20.
C19_NodeCountIssueIffOutsideRange ==
    (IsClusterRequest /\ Validated
     /\ resource_request[1].node_count # None) =>
        (NodeCountIssue <=> resource_request[1].node_count.n \notin 1..20)

IsDatabaseRequest ==
    resource_request # <<>> /\ resource_request[1].resource_type = "RDS_DATABASE"

\* C20: for a database request, validate_request reports the storage issue
\* exactly where the allocated storage is given and below 20, and the
\* engine issue exactly where the engine is given and none of mysql,
\* postgres, mariadb.
C20_StorageAndEngineIssues ==
    (IsDatabaseRequest /\ Validated) =>
        LET r == resource_request[1]
        IN  /\ Reported("RDS allocated storage must be at least 20 GB")
                <=> (r.allocated_storage # None /\ r.allocated_storage.n < 20)
            /\ Reported("Supported database engines: mysql, postgres, mariadb")
                <=> (r.engine # None
                     /\ r.engine.v \notin {<<"m", "y", "s", "q", "l">>, <<"p", "o", "s", "t", "g", "r", "e", "s">>, <<"m", "a", "r", "i", "a", "d", "b">>})


IsBucketRequest ==
    resource_request # <<>> /\ resource_request[1].resource_type = "S3_BUCKET"

Chars(s) == {s[i] : i \in 1..Len(s)}

\* C21: for a bucket request, validate_request returns no issue exactly
\* where the name has 3 to 63 characters, each a lowercase letter, a digit,
\* a dot or a hyphen; so a name of that form with a dot has no issue.
C21_BucketNameAcceptedIffWellFormed ==
    (IsBucketRequest /\ Validated) =>
        LET name == resource_request[1].name.v
        IN  validated[1].issues = <<>>
            <=> /\ Len(name) >= 3 /\ Len(name) <= 63
                /\ Chars(name) \subseteq LowerSet \cup DigitSet \cup {".", "-"}

NameLengthIssue == Reported("Resource name must be at least 3 characters long")

NameIssue ==
    \/ NameLengthIssue
    \/ Reported("Resource name can only contain letters, numbers, hyphens, and underscores")
    \/ Reported("S3 bucket name cannot exceed 63 characters")
    \/ Reported("S3 bucket name can only contain lowercase letters, numbers, dots, and hyphens")

\* A name of letters, digits, hyphens and underscores with a letter or a
\* digit in it; for a bucket, of lowercase letters, digits and hyphens.
AllowedName(r) ==
    /\ Chars(r.name.v) \subseteq
          IF r.resource_type = "S3_BUCKET"
          THEN LowerSet \cup DigitSet \cup {"-"}
          ELSE LowerSet \cup UpperSet \cup DigitSet \cup {"-", "_"}
    /\ Chars(r.name.v) \cap (LowerSet \cup UpperSet \cup DigitSet) # {}

OptionalFieldsAbsent(r) ==
    /\ r.node_count = None /\ r.kubernetes_version = None
    /\ r.allocated_storage = None /\ r.engine = None

C22_WitnessTwoCharacters ==
    /\ Validated
    /\ Len(resource_request[1].name.v) = 2
    /\ NameLengthIssue

\* C23: validate_request raises for no request, a request without a name
\* or with an empty name included: it returns its list.
C23_ValidateNeverRaises ==
    validated # <<>> => ~validated[1].raised


\* ------------------------------------------------------------ tag merging

\* The objects whose tags are the system tags merged with the request's.
MergedRoles == {"cluster", "bucket", "database"}

UserTags ==
    IF resource_request[1].tags = <<>> THEN <<>>
    ELSE resource_request[1].tags[1].v

\* The system tags of the object, as the call made them.
SystemTags(d) == system_tags(d.role, resource_request[1], called_at[1])

SameValues(d, e, keys) == \A k \in keys : Value(d, k) = Value(e, k)

\* C24: in the objects with merged tags, request tags that are absent or
\* empty leave the system tags as they are; the tags {cost_center: x} add
\* the one key Cost-Center and change no system key; and a request key whose
\* normalized form is a system key gives that key the request's value.
C24_TagMerge ==
    Generated =>
        \A i \in DocumentIndex :
            LET d == GeneratedDocuments[i]
                sys == SystemTags(d)
            IN  d.role \in MergedRoles =>
                  /\ UserTags = <<>> => d.tags = <<sys>>
                  /\ UserTags = <<<<<<"c", "o", "s", "t", "_", "c", "e", "n", "t", "e", "r">>, PyStr(<<"x">>)>>>> =>
                        /\ <<"C", "o", "s", "t", "-", "C", "e", "n", "t", "e", "r">> \notin Keys(sys)
                        /\ Keys(d.tags[1]) = Keys(sys) \cup {<<"C", "o", "s", "t", "-", "C", "e", "n", "t", "e", "r">>}
                        /\ Len(d.tags[1]) = Len(sys) + 1
                        /\ Value(d.tags[1], <<"C", "o", "s", "t", "-", "C", "e", "n", "t", "e", "r">>) = PyStr(<<"x">>)
                        /\ SameValues(d.tags[1], sys, Keys(sys))
                  /\ \A j \in 1..Len(UserTags) :
                        (/\ normalized_key(UserTags[j][1]) \in Keys(sys)
                         /\ \A m \in (j + 1)..Len(UserTags) :
                               normalized_key(UserTags[m][1])
                                 # normalized_key(UserTags[j][1]))
                        => Value(d.tags[1], normalized_key(UserTags[j][1]))
                             = UserTags[j][2]

\* A request key collided with a system key and the request's value is in
\* the object.
C24_Witness ==
    /\ Generated
    /\ \E i \in DocumentIndex, j \in 1..Len(UserTags) :
         LET d == GeneratedDocuments[i]
         IN  /\ d.role \in MergedRoles
             /\ normalized_key(UserTags[j][1]) \in Keys(SystemTags(d))
             /\ Value(d.tags[1], normalized_key(UserTags[j][1]))
                  = UserTags[j][2]
             /\ Value(SystemTags(d), normalized_key(UserTags[j][1]))
                  # UserTags[j][2]

C24_WitnessCostCenter ==
    /\ Generated
    /\ UserTags = <<<<<<"c", "o", "s", "t", "_", "c", "e", "n", "t", "e", "r">>, PyStr(<<"x">>)>>>>
    /\ \E i \in DocumentIndex :
         /\ GeneratedDocuments[i].role \in MergedRoles
         /\ <<"C", "o", "s", "t", "-", "C", "e", "n", "t", "e", "r">> \in Keys(GeneratedDocuments[i].tags[1])

\* ------------------------------------------------------------- determinism

C26_WitnessClockMoved ==
    /\ regenerated # <<>>
    /\ called_at[1] # called_at[2]
    /\ regenerated # generated


\* ---------------------------------------------------------------- Pipeline

\* C25: once parse_request has returned the request, no step of
\* process_request (validation, suggestions, generation, the files, the
\* pull request) changes a field of it, its tags and instance types
\* included.
C25_RequestNeverModified ==
    [][parsed.kind = "request" => parsed'.request = parsed.request]_vars

\* A request with tags went through every step, the pull request included.
C25_Witness ==
    /\ ppc = "done"
    /\ result.status = "success"
    /\ result.pr_info.pull_request # "none"
    /\ parsed.kind = "request"
    /\ OptTruthy(parsed.request[1].tags)
    /\ parsed.request[1].tags[1].t = "dict"


\* ----------------------------------------------------------------- Web app

\* The entries that the statements of submit_request and run_workflow_async
\* leave behind, each statement taken whole.
WrittenEntries ==
    {QueuedEntry, update_running(QueuedEntry)}
    \cup {update_failed(update_running(QueuedEntry), e) : e \in ConstructorErrors}
    \cup {update_final(update_running(QueuedEntry), res) : res \in PipelineResults}
    \cup {[update_final(update_running(QueuedEntry), res)
             EXCEPT !.error = <<result_error(res)>>] : res \in PipelineResults}

PolledEntry == polled[1].entry[1]

PollFound == polled # <<>> /\ polled[1].entry # <<>>

\* No copy holds a part of an update.
C27_NoTornEntry == PollFound => PolledEntry \in WrittenEntries

\* C27: a copy made by get_workflow_status is an entry as one update left
\* it, never a mix of two; and a copy with the status completed or error
\* holds the message, result and error detail that the entry keeps for good.
C27_PollSeesWholeAndFinalEntry ==
    /\ C27_NoTornEntry
    /\ (PollFound /\ PolledEntry.status \in {"completed", "error"}) =>
          LET entry == workflow_status[polled[1].id][1]
          IN  /\ PolledEntry.message = entry.message
              /\ PolledEntry.result = entry.result
              /\ PolledEntry.error = entry.error

PipelineStages == {"queued", "initializing", "completed", "error"}

\* The entry of a run is never removed.
C28_EntryKept ==
    \A w \in WorkflowIds : wpc[w] # "none" => workflow_status[w] # <<>>

\* C28: the entry of a run exists from its submission on and is never
\* removed, and a run that went through process_request has written a
\* stage of the pipeline to its entry.
C28_EntryFollowsStages ==
    /\ C28_EntryKept
    /\ \A w \in WorkflowIds :
          (wpc[w] = "done" /\ wresult[w] # NoResult) =>
              \E i \in 1..Len(stage_log[w]) :
                  stage_log[w][i] \notin PipelineStages


\* ---------------------------------------------------------- pattern fallback

HasKeyword(words) == ContainsAny(Lower(user_input), words)

StoreWords == {<<"b", "u", "c", "k", "e", "t">>, <<"s", "3">>, <<"s", "t", "o", "r", "a", "g", "e">>}
DatabaseWords == {<<"d", "a", "t", "a", "b", "a", "s", "e">>, <<"d", "b">>, <<"r", "d", "s">>, <<"m", "y", "s", "q", "l">>, <<"p", "o", "s", "t", "g", "r", "e", "s">>}
NetworkWords == {<<"v", "p", "c">>, <<"n", "e", "t", "w", "o", "r", "k">>, <<"s", "u", "b", "n", "e", "t">>}

FellBack == parsed.kind = "request" /\ parsed.fallback

AllCallsRaised ==
    \A k \in 1..Len(parsed.calls) : asked[k].kind = "raise"

\* C29: _fallback_parse always gives a resource type: the bucket for a text
\* with a storage keyword, else the database for one with a database
\* keyword, else the network for one with a network keyword, else the
\* cluster; and with every call of the collaborator raising, the text
\* 'I need a secure S3 bucket for storing customer data' gives a bucket in
\* the environment development.
C29_FallbackTypeByKeywordOrder ==
    /\ FellBack =>
         LET ty == parsed.request[1].resource_type
         IN  /\ ty \in ResourceTypes
             /\ HasKeyword(StoreWords) => ty = "S3_BUCKET"
             /\ (~HasKeyword(StoreWords) /\ HasKeyword(DatabaseWords))
                   => ty = "RDS_DATABASE"
             /\ (/\ ~HasKeyword(StoreWords) /\ ~HasKeyword(DatabaseWords)
                 /\ HasKeyword(NetworkWords)) => ty = "VPC"
             /\ (/\ ~HasKeyword(StoreWords) /\ ~HasKeyword(DatabaseWords)
                 /\ ~HasKeyword(NetworkWords)) => ty = "EKS_CLUSTER"
    /\ (parsed # NoParse /\ user_input = text_bucket /\ AllCallsRaised) =>
         /\ FellBack
         /\ parsed.request[1].resource_type = "S3_BUCKET"
         /\ parsed.request[1].environment = PyStr(s_development)

\* The calls were made and raised, and the text resolved to a bucket.
C29_Witness ==
    /\ FellBack
    /\ user_input = text_bucket
    /\ Len(parsed.calls) >= 1 /\ AllCallsRaised
    /\ parsed.request[1].resource_type = "S3_BUCKET"
    /\ parsed.request[1].environment = PyStr(s_development)

\* A text with keywords of all three groups resolved to a bucket.
C29_WitnessOrder ==
    /\ FellBack
    /\ user_input = text_backup
    /\ parsed.request[1].resource_type = "S3_BUCKET"


\* ------------------------------------------------------ whose branch is deleted

\* C30 (as stated): a run calls delete_branch only for a branch its own
\* POST /git/refs created (status 201): not when create_branch raised, and
\* not when the 422 answer made it continue on a branch that was already
\* there.
C30_DeletesOnlyOwnBranch ==
    \A r \in Runs :
        Count(r, "delete_branch") >= 1 => RefStatus(r) = 201

\* What the code does: the except clause of create_automated_pr calls
\* delete_branch once on every raising run, whatever create_branch did.
C30_DeletesOnEveryRaise ==
    \A r \in Runs :
        Terminal(r) =>
            (Count(r, "delete_branch") = 1 <=> outcome[r].kind = "raised")

\* A run that continued on a 422 answer had its deletion answered 204.
C30_AdoptedBranchDeleted ==
    \E r \in Runs :
        /\ pc[r] = "raised"
        /\ RefStatus(r) = 422
        /\ DelStatus(r) = 204


\* ------------------------------------------------------------ two runs at once

BothFinished == \A r \in Runs : Terminal(r)

\* The files on branch b that run r did not commit.
ForeignFiles(b, r) == {f \in branch_files[b] : f[1] # r}

\* C31 (as stated): when both runs have finished, the branch of a run that
\* returned a pull request still exists and holds no file of the other run,
\* the two runs having derived the same branch name or not.
C31_ReturnedBranchIsTheRunsOwn ==
    BothFinished =>
        \A r \in Runs :
            outcome[r].kind = "returned" =>
                /\ outcome[r].branch \in branches
                /\ ForeignFiles(outcome[r].branch, r) = {}

\* What holds: the same for two runs that derived different branch names.
C31_DistinctNamesAreIsolated ==
    (BothFinished /\ branch_name["r1"] # branch_name["r2"]) =>
        \A r \in Runs :
            outcome[r].kind = "returned" =>
                /\ outcome[r].branch \in branches
                /\ ForeignFiles(outcome[r].branch, r) = {}
                /\ {f[2] : f \in branch_files[outcome[r].branch]}
                      = {commits[r][k] : k \in 1..Len(commits[r])}


\* ------------------------------------------------- order of the operations

\* The positions in run r's log of the operations named `name`.
PositionsOf(r, name) == {k \in 1..Len(ops[r]) : ops[r][k].op = name}

\* C32: in one run the log of the hosting operations starts with the one
\* create_branch; the commit attempts follow it, one per file in input
\* order; at most one create_pull_request follows them, and only when every
\* file was attempted and at least one commit of this run was accepted; no
\* commit is attempted when create_branch raised.
C32_OperationsInOrder ==
    \A r \in Solo :
        LET cs == OpsOf(r, "commit")
        IN  /\ ops[r] # <<>> => ops[r][1].op = "create_branch"
            /\ Count(r, "create_branch") <= 1
            /\ \A k \in 1..Len(cs) : cs[k].arg = k
            /\ Len(cs) <= files[r]
            /\ \A c \in PositionsOf(r, "commit") :
                 \A p \in PositionsOf(r, "create_pull_request") : c < p
            /\ Count(r, "create_pull_request") <= 1
            /\ ~BranchStepPassed(r) => cs = <<>>
            /\ Count(r, "create_pull_request") = 1 =>
                 /\ Len(cs) = files[r]
                 /\ Accepted(r) # <<>>
                 /\ commits[r] = Accepted(r)

\* A run of three files whose second commit was refused opened its pull
\* request after the three attempts.
C32_Witness ==
    \E r \in Solo :
        /\ pc[r] = "returned"
        /\ files[r] = 3
        /\ Len(ops[r]) = 5
        /\ ops[r][3].op = "commit" /\ ops[r][3].status = 409
        /\ LastOp(r).op = "create_pull_request"
        /\ commits[r] = <<1, 3>>

\* create_branch raised and the run ended with its cleanup as only other call.
C32_WitnessNoCommit ==
    \E r \in Solo :
        /\ pc[r] = "raised"
        /\ files[r] = 2
        /\ RefStatus(r) = 409
        /\ Len(ops[r]) = 2


\* ------------------------------------------------------- the secondary model

SecondaryModel == "gpt-3.5-turbo"

\* The calls made to the secondary model by an agent built for another one.
SecondaryCalls ==
    IF llm_model = SecondaryModel THEN <<>>
    ELSE SelectSeq(parsed.calls, LAMBDA c : c.model = SecondaryModel)

Substituted == SecondaryCalls # <<>>

\* A call to the primary model raised, or the agent could not build it.
PrimaryFailedOutright ==
    /\ llm_model # SecondaryModel
    /\ \/ ConfigError
       \/ \E k \in 1..Len(parsed.calls) :
            parsed.calls[k].model = llm_model /\ asked[k].kind = "raise"

\* C33 (as stated): the gpt-3.5-turbo agent is asked exactly when a call to
\* the agent's own model failed outright (it raised, or the agent could not
\* authenticate), never because the attempts only came back without
\* content; and it is then asked through the attempts from the first one
\* (512 tokens with the schema) on.
C33_SecondaryOnOutrightFailureFromTierOne ==
    parsed # NoParse =>
        /\ Substituted <=> PrimaryFailedOutright
        /\ Substituted =>
             SecondaryCalls[1] = Call(SecondaryModel, 512, "json_schema")

\* What the code does: an agent built without self.api_key asks the
\* secondary model in no case, whatever the answers.
C33_NeverSubstituted == parsed # NoParse => ~Substituted

\* The primary model's call raised and the regex parser answered instead.
C33_FailedOutrightWithoutSubstitute ==
    /\ parsed # NoParse
    /\ llm_model = "gpt-4"
    /\ asked[1].kind = "raise"
    /\ parsed.calls = <<Call("gpt-4", 500, "text")>>
    /\ parsed.fallback


\* ---------------------------------------------------- parse_request ends

\* The calls parse_request made to the agent's own model.
PrimaryCalls == SelectSeq(parsed.calls, LAMBDA c : c.model = llm_model)

CallsBounded ==
    /\ Len(PrimaryCalls) <= Len(Attempts)
    /\ Len(SecondaryCalls) <= 1
    /\ Len(parsed.calls) <= MaxCalls

\* C34: parse_request ends, every call of the collaborator returning or
\* raising: it makes at most three calls to the agent's model and at most
\* one to gpt-3.5-turbo in its place, and then returns a request or raises
\* LLMParsingError.
C34_ParseRequestEnds ==
    /\ <>(parsed # NoParse)
    /\ [](parsed # NoParse =>
            /\ CallsBounded
            /\ parsed.kind \in {"request", "LLMParsingError"}
            /\ parsed.kind = "request" <=> parsed.request # <<>>)

\* The one call of a gpt-4 agent raised and parse_request returned a request.
C34_Witness ==
    /\ parsed # NoParse
    /\ llm_model = "gpt-4"
    /\ asked[1].kind = "raise"
    /\ Len(PrimaryCalls) = 1
    /\ parsed.kind = "request"

\* The call was answered without content and parse_request raised.
C34_WitnessRaised ==
    /\ parsed # NoParse
    /\ llm_model = "gpt-4"
    /\ asked[1] = Content(c_empty)
    /\ Len(PrimaryCalls) = 1
    /\ parsed.kind = "LLMParsingError"


\* ------------------------------------------------------ every workflow ends

Submitted(w) == workflow_status[w] # <<>>

StatusOf(w) == IF Submitted(w) THEN workflow_status[w][1].status ELSE "none"

Ended(w) == StatusOf(w) \in {"completed", "error"}

\* C35: every submitted workflow reaches the status completed or error,
\* the calls it makes returning or raising, and keeps that status from then
\* on, whichever result or exception its run gave.
C35_EveryWorkflowEnds ==
    \A w \in WorkflowIds :
        /\ Submitted(w) ~> Ended(w)
        /\ [](StatusOf(w) = "completed" => [](StatusOf(w) = "completed"))
        /\ [](StatusOf(w) = "error" => [](StatusOf(w) = "error"))

\* One workflow ended completed, the other in the handler of an exception.
C35_Witness ==
    /\ wpc["w1"] = "done" /\ StatusOf("w1") = "completed"
    /\ wpc["w2"] = "done" /\ StatusOf("w2") = "error"
    /\ workflow_status["w2"][1].stage = "error"

\* ------------------------------------------------- what completed stands for

C36_CompletedIsSuccess ==
    \A w \in WorkflowIds :
        StatusOf(w) = "completed" =>
            /\ wresult[w].status = "success"
            /\ workflow_status[w][1].result = <<stored_result(wresult[w])>>

\* An entry is completed although _create_pr returned an error dict.
C36_CompletedWithoutPullRequest ==
    \E w \in WorkflowIds :
        /\ StatusOf(w) = "completed"
        /\ "error" \in wresult[w].pr_info.keys
        /\ "pr_url" \notin workflow_status[w][1].result[1].keys


\* ------------------------------------------------------- node group scaling

\* validate_request returned no issue.
PassedValidation == Validated /\ validated[1].issues = <<>>

\* The node groups among the generated documents.
NodeGroups ==
    {GeneratedDocuments[i].scalingConfig :
        i \in {j \in DocumentIndex : GeneratedDocuments[j].role = "node_group"}}

\* What the claim gives for a node count: the count, 3 when there is none.
ClaimedDesired(nc) == IF nc = None THEN 3 ELSE nc.n

\* C37 (as stated): for a cluster request without validation issue the node
\* group has desiredSize = the node count (3 when it is absent), minSize =
\* max(1, desiredSize - 1) and maxSize = desiredSize * 2, and so
\* 1 <= minSize <= desiredSize <= maxSize.
C37_ScalingFollowsNodeCount ==
    (IsClusterRequest /\ PassedValidation /\ Generated) =>
        /\ NodeGroups # {}
        /\ \A s \in NodeGroups :
             /\ s.desiredSize = ClaimedDesired(resource_request[1].node_count)
             /\ s.minSize = Max(1, s.desiredSize - 1)
             /\ s.maxSize = s.desiredSize * 2
             /\ 1 <= s.minSize /\ s.minSize <= s.desiredSize
             /\ s.desiredSize <= s.maxSize

\* What holds: the same for every node count but 0, and the bounds are in
\* order for 0 as well.
C37_ScalingForNonZeroCount ==
    (IsClusterRequest /\ PassedValidation /\ Generated) =>
        /\ NodeGroups # {}
        /\ \A s \in NodeGroups :
             /\ resource_request[1].node_count # PyInt(0) =>
                  s.desiredSize = ClaimedDesired(resource_request[1].node_count)
             /\ s.minSize = Max(1, s.desiredSize - 1)
             /\ s.maxSize = s.desiredSize * 2
             /\ 1 <= s.minSize /\ s.minSize <= s.desiredSize
             /\ s.desiredSize <= s.maxSize

\* A request of zero nodes passed validation and got three.
C37_ZeroNodesGetThree ==
    /\ IsClusterRequest /\ PassedValidation /\ Generated
    /\ resource_request[1].node_count = PyInt(0)
    /\ \E s \in NodeGroups : s.desiredSize = 3


\* ------------------------------------------------- versioning and encryption

\* spec.forProvider of the generated buckets.
Buckets ==
    {GeneratedDocuments[i].forProvider :
        i \in {j \in DocumentIndex : GeneratedDocuments[j].role = "bucket"}}

SseKey == "serverSideEncryptionConfiguration"

\* What the two flags give in all the cases where the encryption is not
\* False: the status of the versioning, and the rule with its algorithm.
FlagsRendered(f) ==
    LET r == resource_request[1]
    IN  /\ f.versioningConfiguration.status =
             (IF r.versioning = PyBool(FALSE) THEN "Suspended" ELSE "Enabled")
        /\ r.encryption # PyBool(FALSE) =>
             /\ SseKey \in f.keys
             /\ f[SseKey].keys = {"rules"}
             /\ r.encryption = PyBool(TRUE) => f[SseKey].sseAlgorithm = "aws:kms"
             /\ r.encryption = None => f[SseKey].sseAlgorithm = "AES256"

\* C38 (as stated): for a bucket request, over true, false and absent for
\* each flag, the versioning is Enabled unless versioning is False; with
\* encryption False the bucket has no serverSideEncryptionConfiguration at
\* all; otherwise it has one, with aws:kms for True and AES256 for absent.
C38_EncryptionBlockAbsentWhenFalse ==
    (IsBucketRequest /\ Generated) =>
        /\ Buckets # {}
        /\ \A f \in Buckets :
             /\ FlagsRendered(f)
             /\ resource_request[1].encryption = PyBool(FALSE) =>
                  SseKey \notin f.keys

\* C38 (amended): the same, but with encryption False the bucket keeps the
\* key serverSideEncryptionConfiguration, with the empty dict as its value:
\* no rule and no algorithm.
C38_EncryptionBlockEmptyWhenFalse ==
    (IsBucketRequest /\ Generated) =>
        /\ Buckets # {}
        /\ \A f \in Buckets :
             /\ FlagsRendered(f)
             /\ resource_request[1].encryption = PyBool(FALSE) =>
                  /\ SseKey \in f.keys
                  /\ f[SseKey].keys = {}

\* Versioning absent and encryption False: Enabled, and the empty dict.
C38_Witness ==
    /\ IsBucketRequest /\ Generated
    /\ resource_request[1].versioning = None
    /\ resource_request[1].encryption = PyBool(FALSE)
    /\ \E f \in Buckets :
         /\ f.versioningConfiguration.status = "Enabled"
         /\ f[SseKey].keys = {}

\* Versioning False and encryption True: Suspended, and aws:kms.
C38_WitnessSuspended ==
    /\ IsBucketRequest /\ Generated
    /\ resource_request[1].versioning = PyBool(FALSE)
    /\ resource_request[1].encryption = PyBool(TRUE)
    /\ \E f \in Buckets :
         /\ f.versioningConfiguration.status = "Suspended"
         /\ f[SseKey].sseAlgorithm = "aws:kms"


\* ------------------------------------------------- the name of the fallback

NameMessages ==
    {"Resource name must be at least 3 characters long",
     "Resource name can only contain letters, numbers, hyphens, and underscores",
     "S3 bucket name cannot exceed 63 characters",
     "S3 bucket name can only contain lowercase letters, numbers, dots, and hyphens"}

\* The issues validate_request reports on the name of request r.
NameIssuesOf(r) ==
    SelectSeq(validate_issues(r, TRUE), LAMBDA m : m \in NameMessages)

\* C39 (as stated): the name of every request of _fallback_parse, taken
\* from the text or defaulted, passes the naming rules of validate_request
\* for the type of the request: at least 3 characters, allowed characters
\* only, and for a bucket lowercase and at most 63 characters.
C39_FallbackNamePassesNamingRules ==
    FellBack =>
        /\ Len(parsed.request[1].name.v) >= 3
        /\ NameIssuesOf(parsed.request[1]) = <<>>

\* What holds: the name is not empty and made of lowercase letters, digits
\* and hyphens.
C39_FallbackNameCharacters ==
    FellBack =>
        /\ parsed.request[1].name.t = "str"
        /\ parsed.request[1].name.v # <<>>
        /\ Chars(parsed.request[1].name.v) \subseteq
              LowerSet \cup DigitSet \cup {"-"}

\* The text 'I need a secure S3 bucket ...' gave the name 's3'.
C39_NameOfTwoCharacters ==
    /\ FellBack
    /\ user_input = text_bucket
    /\ parsed.request[1].name = PyStr(<<"s", "3">>)
    /\ NameIssuesOf(parsed.request[1])
         = <<"Resource name must be at least 3 characters long">>

====
